---- MODULE Spec2Model ----
(***************************************************************************)
(* Implied-volatility surface pipeline of the Stock-Database repository    *)
(* (src/analysis/iv_surface.py as described by claudedocs/ and spec.md):   *)
(* QuoteFilter -> ImpliedVolatilitySolver -> barrier -> SurfaceInterpolator *)
(* -> SurfaceValidator, orchestrated per option type by SurfaceBuilder.     *)
(*                                                                         *)
(* Units.  TLC has integers only, so every real quantity is a fixed-point  *)
(* integer:                                                                *)
(*   sigma      in hundredths        (0.01 -> 1, 0.20 -> 20, 5.0 -> 500)    *)
(*   price/loss in 1/10000 dollar    (0.001 -> 10, 0.01 -> 100,            *)
(*                                    6.04 -> 60400)                        *)
(*   vega       in price units per hundredth of sigma                       *)
(*   T          in milli-years       (0.001 -> 1, 0.01 -> 10, 0.5 -> 500)   *)
(*   S, K       in dollars                                                  *)
(***************************************************************************)
EXTENDS Integers, FiniteSets, Sequences, TLC

(***************************************************************************)
(* Program constants                                                       *)
(***************************************************************************)
SIGMA_MIN == 1
SIGMA_MAX == 500
SIGMA_INIT == 20
PRICE_FLOOR == 100
TIME_FLOOR == 10
PRICE_TOLERANCE == 10
CALL_MONEYNESS_MAX == 110
PUT_MONEYNESS_MIN == 90
MIN_POINTS == 4
VEGA_FLOOR == 1

(***************************************************************************)
(* Bounds of the model                                                     *)
(***************************************************************************)
MaxQuotes == 6
GridN == 3
MaxIter == 4

OptionTypes == {"calls", "puts"}
Methods == {"linear", "cubic"}
Spots == {100, 110}

Converged(s) == [kind |-> "converged", sigma |-> s]
NonConvergence == [kind |-> "NonConvergence", sigma |-> 0]
DegenerateVega == [kind |-> "DegenerateVega", sigma |-> 0]

(***************************************************************************)
(* The option chain the market-data collaborator may return: one contract  *)
(* per (strike, expiry) with the call and the put price, and for each the  *)
(* outcome the solver reaches on that price (the Black-Scholes arithmetic   *)
(* is transcendental; the solver loop itself is the SolverSpec machine).    *)
(***************************************************************************)
Contract(k, t, cp, civ, pp, piv) ==
    [K |-> k, T |-> t, callPrice |-> cp, callIv |-> civ, putPrice |-> pp, putIv |-> piv]

CoreChain ==
    { Contract(100, 250,  42700, Converged(5),    37700, Converged(8)),
      Contract(100, 500,  60400, Converged(20),   50400, DegenerateVega),
      Contract(111, 250,  12000, Converged(200), 118000, Converged(200)),
      Contract(111, 500,  25000, NonConvergence, 124000, Converged(250)),
      Contract(125, 500,   9000, Converged(250), 255000, Converged(40)),
      Contract( 90, 250, 105000, Converged(60),    3000, Converged(5)),
      Contract(125, 250,     50, Converged(300), 250000, Converged(35)),
      Contract(100,   1,   8000, Converged(90),      10, Converged(20)) }

\* four strikes at one expiry, four expiries at one strike
StrikeLadder ==
    { Contract( 90, 250, 105000, Converged(60),    3000, Converged(5)),
      Contract(100, 250,  42700, Converged(5),    37700, Converged(8)),
      Contract(105, 250,  22000, Converged(30),   70000, Converged(45)),
      Contract(111, 250,  12000, Converged(200), 118000, Converged(200)) }

ExpiryLadder ==
    { Contract(100,  250, 42700, Converged(5),   37700, Converged(8)),
      Contract(100,  500, 60400, Converged(20),  50400, DegenerateVega),
      Contract(100,  750, 74000, Converged(25),  59000, Converged(24)),
      Contract(100, 1000, 85000, Converged(28),  65000, Converged(26)) }

Chains ==
    { c \in SUBSET CoreChain \cup SUBSET StrikeLadder \cup SUBSET ExpiryLadder :
        Cardinality(c) <= MaxQuotes }

VARIABLES spot, method, chain, stage, reason, filtered, running, points, dropped,
          timeAxis, strikeAxis, rawGrid, grid, clipCount, extrapolated, trail, solver

builderVars == <<spot, method, chain, stage, reason, filtered, running, points, dropped,
                 timeAxis, strikeAxis, rawGrid, grid, clipCount, extrapolated, trail>>
solverVars == <<solver>>

\* two surface requests served at the same time (re-entrancy of the core)
VARIABLES request, build
pairVars == <<request, build>>
PairOff == request = <<>> /\ build = <<>>

\* the stock page of the frontend (app.js): the price and volume charts, the
\* dataset checkboxes, the date inputs and the loadStockData calls in
\* flight; calls counts the calls and keeps the latest one, chartOp is the
\* last operation, restyles counts the style changes Chart.js made
VARIABLES priceChart, volumeChart, currentStockData, isChartReady,
          chartUpdateTimeout, checked, dateRange, loads, calls, chartOp, restyles
chartVars == <<priceChart, volumeChart, currentStockData, isChartReady,
               chartUpdateTimeout, checked, dateRange, loads, calls, chartOp, restyles>>
ChartOff ==
    /\ priceChart = <<>> /\ volumeChart = <<>> /\ currentStockData = <<>>
    /\ isChartReady = FALSE /\ chartUpdateTimeout = <<>> /\ checked = <<>>
    /\ dateRange = <<>> /\ loads = {} /\ calls = <<>> /\ chartOp = <<>>
    /\ restyles = 0

\* the stock search box (app.js): the input element, the timers the
\* runtime holds for it, the handle of the last one, the searchTickers calls
\* in flight, a count of the calls with the latest query, the dropdown, and
\* the index of the result the arrow keys selected
VARIABLES searchInput, timers, searchTimeout, searches, searched, searchResults,
          selectedSearchIndex
searchVars == <<searchInput, timers, searchTimeout, searches, searched, searchResults,
                selectedSearchIndex>>
SearchOff ==
    /\ searchInput = <<>> /\ timers = {} /\ searchTimeout = 0
    /\ searches = {} /\ searched = <<>> /\ searchResults = <<>>
    /\ selectedSearchIndex = -1

\* fullscreen mode of the chart containers (fullscreen-manager.js, app.js):
\* which script drives it, document.fullscreenElement, the ResizableChart
\* instance, the stored canvas dimensions, the containers whose exit handler
\* is registered, the pending timers, and the containers' elements
VARIABLES fullscreenScript, fullscreenElement, activeInstance,
          originalCanvasDimensions, fullscreenListeners, screenTimers, dom
screenVars == <<fullscreenScript, fullscreenElement, activeInstance,
                originalCanvasDimensions, fullscreenListeners, screenTimers, dom>>
ScreenOff ==
    /\ fullscreenScript = "" /\ fullscreenElement = "" /\ activeInstance = <<>>
    /\ originalCanvasDimensions = <<>> /\ fullscreenListeners = {}
    /\ screenTimers = {} /\ dom = <<>>

\* one chart container in fullscreen with its ResizableChart: the instance,
\* the wrapper's position and size, the container's size, the event
\* listeners registered on the document and on the elements, the number of
\* instances made, and the last operation
VARIABLES resizable, wrapper, containerRect, eventListeners, instances, resizeOp
resizeVars == <<resizable, wrapper, containerRect, eventListeners, instances, resizeOp>>
ResizeOff ==
    /\ resizable = <<>> /\ wrapper = <<>> /\ containerRect = <<>>
    /\ eventListeners = {} /\ instances = 0 /\ resizeOp = ""

\* the frontend state, and its value before the page is opened
frontVars == <<chartVars, searchVars, screenVars, resizeVars>>
FrontOff == ChartOff /\ SearchOff /\ ScreenOff /\ ResizeOff

\* the state outside the single-request pipeline, and its idle value
outsideVars == <<pairVars, frontVars>>
notChartVars == <<builderVars, solverVars, pairVars, searchVars, screenVars, resizeVars>>
notSearchVars == <<builderVars, solverVars, pairVars, chartVars, screenVars, resizeVars>>
notScreenVars == <<builderVars, solverVars, pairVars, chartVars, searchVars, resizeVars>>
notResizeVars == <<builderVars, solverVars, pairVars, chartVars, searchVars, screenVars>>
OutsideOff == PairOff /\ FrontOff

vars == <<builderVars, solverVars, outsideVars>>

(***************************************************************************)
(* OptionQuote records of one option type assembled from the chain         *)
(***************************************************************************)
RawQuotes(t) ==
    { [K |-> c.K, T |-> c.T, type |-> t,
       price |-> IF t = "calls" THEN c.callPrice ELSE c.putPrice,
       iv |-> IF t = "calls" THEN c.callIv ELSE c.putIv] : c \in chain }

(***************************************************************************)
(* QuoteFilter: the price/time floor and the moneyness screen.             *)
(* moneyness = S / K; S/K > 1.10 is 100*S > 110*K on integers.              *)
(***************************************************************************)
\* floor test that drops a quote only when both floors are missed
BelowBothFloors(q) == q.price < PRICE_FLOOR /\ q.T < TIME_FLOOR

BelowFloor(q) == q.price < PRICE_FLOOR \/ q.T < TIME_FLOOR

\* the option loop before the moneyness screen was added
NoMoneynessScreen(q, S) == FALSE

DeepITM(q, S) ==
    \/ q.type = "calls" /\ 100 * S > CALL_MONEYNESS_MAX * q.K
    \/ q.type = "puts" /\ 100 * S < PUT_MONEYNESS_MIN * q.K

Retained(q, S) == ~BelowFloor(q) /\ ~DeepITM(q, S)

QuoteFilter(quotes, S) == { q \in quotes : Retained(q, S) }

SolvedPoint(q) == [T |-> q.T, K |-> q.K, sigma |-> q.iv.sigma]

(***************************************************************************)
(* ImpliedVolatilitySolver: bounded Newton-Raphson on one quote.           *)
(* loss = BSM_price(sigma) - market_price and vega = d price / d sigma are *)
(* transcendental in sigma; each evaluation is drawn from Losses and Vegas, *)
(* so the loop is checked for every sequence of evaluations.                *)
(***************************************************************************)
Abs(x) == IF x < 0 THEN -x ELSE x

Losses == {-60000, -5600, -9, 10, 5600, 60000}
Vegas == {0, 3, 2800}

\* a clip that enforces the lower bound only
ClipLowerOnly(x, lo, hi) == IF x < lo THEN lo ELSE x

Clip(x, lo, hi) == IF x < lo THEN lo ELSE IF x > hi THEN hi ELSE x

\* the Newton step (price(sigma) - market_price) / vega(sigma)
NewtonStep(loss, vega) == loss \div vega

\* the update of the old script: no bounds during the iteration
NewtonUpdateUnbounded(sigma, loss, vega) == sigma - NewtonStep(loss, vega)

NewtonUpdate(sigma, loss, vega) ==
    Clip(sigma - NewtonStep(loss, vega), SIGMA_MIN, SIGMA_MAX)

\* a loop without the tolerance test
ToleranceNeverMet(loss) == FALSE

\* tolerance test that also accepts a residual of exactly the tolerance
MeetsToleranceInclusive(loss) == Abs(loss) <= PRICE_TOLERANCE

MeetsTolerance(loss) == Abs(loss) < PRICE_TOLERANCE

\* what the loop does with the evaluation at the current iterate
SolverVerdict(loss, vega, iter) ==
    IF MeetsTolerance(loss) THEN "converged"
    ELSE IF iter >= MaxIter THEN "NonConvergence"
    ELSE IF Abs(vega) < VEGA_FLOOR THEN "DegenerateVega"
    ELSE "iterating"

SolverIdle ==
    [status |-> "idle", sigma |-> SIGMA_INIT, proposal |-> SIGMA_INIT,
     iter |-> 0, loss |-> 0, vega |-> 0]

\* the call: initial guess and its first evaluation
SolverStart ==
    /\ solver.status = "idle"
    /\ \E l \in Losses, v \in Vegas :
         solver' = [solver EXCEPT !.status = "iterating", !.loss = l, !.vega = v]
    /\ UNCHANGED builderVars

\* one iteration of the loop: update, clip, evaluate at the new iterate
SolverIterate ==
    /\ solver.status = "iterating"
    /\ SolverVerdict(solver.loss, solver.vega, solver.iter) = "iterating"
    /\ \E l \in Losses, v \in Vegas :
         solver' = [solver EXCEPT
                      !.sigma = NewtonUpdate(solver.sigma, solver.loss, solver.vega),
                      !.proposal = solver.sigma - NewtonStep(solver.loss, solver.vega),
                      !.iter = @ + 1, !.loss = l, !.vega = v]
    /\ UNCHANGED builderVars

\* the return: converged sigma or a typed failure
SolverReturn ==
    /\ solver.status = "iterating"
    /\ SolverVerdict(solver.loss, solver.vega, solver.iter) # "iterating"
    /\ solver' = [solver EXCEPT !.status = SolverVerdict(solver.loss, solver.vega, solver.iter)]
    /\ UNCHANGED builderVars

SolverInit == solver = SolverIdle

SolverNext == SolverStart \/ SolverIterate \/ SolverReturn

(***************************************************************************)
(* SurfaceInterpolator.  The target grid is GridN x GridN over             *)
(* [min T, max T] x [min K, max K] (np.linspace on both axes).  Grid and   *)
(* data coordinates are multiplied by GridN - 1 so that every grid node is *)
(* an integer point.                                                       *)
(***************************************************************************)
GridSteps == GridN - 1
Cells == (0..GridSteps) \X (0..GridSteps)
NoGrid == [c \in {} |-> 0]
NoAxis == [i \in {} |-> 0]
NaN == -999999
CubicArtifacts == {-800, 0, 400}

MinOf(S) == CHOOSE x \in S : \A y \in S : x <= y
MaxOf(S) == CHOOSE x \in S : \A y \in S : x >= y

TimesOf(P) == { p.T : p \in P }
StrikesOf(P) == { p.K : p \in P }

\* an axis laid out from hi down to lo
AxisAtDescending(lo, hi, i) == hi * GridSteps - i * (hi - lo)

\* axis value i of linspace(lo, hi, GridN), times GridSteps
AxisAt(lo, hi, i) == lo * GridSteps + i * (hi - lo)
TimeAxis(P) == [i \in 0..GridSteps |-> AxisAt(MinOf(TimesOf(P)), MaxOf(TimesOf(P)), i)]
StrikeAxis(P) == [j \in 0..GridSteps |-> AxisAt(MinOf(StrikesOf(P)), MaxOf(StrikesOf(P)), j)]

Node(P, c) == [x |-> TimeAxis(P)[c[1]], y |-> StrikeAxis(P)[c[2]]]
Site(p) == [x |-> p.T * GridSteps, y |-> p.K * GridSteps]

Orient(a, b, c) == (b.x - a.x) * (c.y - a.y) - (b.y - a.y) * (c.x - a.x)

\* n lies in the closed triangle a b c (which has non-zero area)
InTriangle(a, b, c, n) ==
    LET o1 == Orient(a, b, n)
        o2 == Orient(b, c, n)
        o3 == Orient(c, a, n)
    IN  \/ o1 >= 0 /\ o2 >= 0 /\ o3 >= 0
        \/ o1 <= 0 /\ o2 <= 0 /\ o3 <= 0

\* the three vertices of a triangle, in a fixed order
Vertices(tri) ==
    LET a == CHOOSE p \in tri : TRUE
        b == CHOOSE p \in tri \ {a} : TRUE
        c == CHOOSE p \in tri \ {a, b} : TRUE
    IN  <<a, b, c>>

\* triangles a triangulation of the sample sites can contain: non-zero
\* area and no further sample inside or on the boundary
Triangles(P) ==
    { tri \in SUBSET P :
        /\ Cardinality(tri) = 3
        /\ \E v \in {Vertices(tri)} :
              /\ Orient(Site(v[1]), Site(v[2]), Site(v[3])) # 0
              /\ \A o \in P \ tri :
                    ~InTriangle(Site(v[1]), Site(v[2]), Site(v[3]), Site(o)) }

Contains(tri, n) ==
    \E v \in {Vertices(tri)} : InTriangle(Site(v[1]), Site(v[2]), Site(v[3]), n)

\* barycentric (convex) combination of the three vertex values at n
Barycentric(tri, n) ==
    \* the weights are the areas of the sub-triangles opposite each vertex
    LET v == Vertices(tri)
        wa == Abs(Orient(Site(v[2]), Site(v[3]), n))
        wb == Abs(Orient(Site(v[3]), Site(v[1]), n))
        wc == Abs(Orient(Site(v[1]), Site(v[2]), n))
    IN  (wa * v[1].sigma + wb * v[2].sigma + wc * v[3].sigma) \div (wa + wb + wc)

InHull(tris, n) == \E tri \in tris : Contains(tri, n)

\* an interpolation that is not a convex combination: the weights of a
\* containing triangle are not normalised by their sum
LinearValuesUnnormalised(tris, n) ==
    IF InHull(tris, n)
    THEN { 2 * Barycentric(tri, n) : tri \in { t \in tris : Contains(t, n) } }
    ELSE {NaN}

\* griddata(method='linear') over the triangles tris: NaN outside the
\* convex hull
LinearValues(tris, n) ==
    IF InHull(tris, n)
    THEN { Barycentric(tri, n) : tri \in { t \in tris : Contains(t, n) } }
    ELSE {NaN}

\* griddata(method='cubic'): passes through the samples, NaN outside the
\* hull, and between samples departs from the linear value by an
\* overshoot or undershoot artifact
CubicValues(P, tris, n, artifact) ==
    IF \E p \in P : Site(p) = n
    THEN { p.sigma : p \in { s \in P : Site(s) = n } }
    ELSE IF InHull(tris, n)
         THEN { v + artifact : v \in LinearValues(tris, n) }
         ELSE {NaN}

\* a is strictly closer to n than b, T in years and K in dollars
\* (dT^2 + 10^6 dK^2 with T in milli-years, compared without overflow)
Closer(a, b, n) ==
    LET dTa == Site(a).x - n.x
        dTb == Site(b).x - n.x
        dKa == Site(a).y - n.y
        dKb == Site(b).y - n.y
    IN  ((dTa * dTa - dTb * dTb) \div (1000 * 1000)) < (dKb * dKb - dKa * dKa)

\* griddata(method='nearest')
NearestValues(P, n) == { p.sigma : p \in { a \in P : \A b \in P : ~Closer(b, a, n) } }

GriddataValues(P, tris, n, m, artifact) ==
    IF m = "linear" THEN LinearValues(tris, n) ELSE CubicValues(P, tris, n, artifact)

\* the griddata result without the nearest-neighbour fill
UnfilledValues(P, tris, n, m, artifact) == GriddataValues(P, tris, n, m, artifact)

\* values a cell can hold after the NaN fill
FilledValues(P, tris, n, m, artifact) ==
    LET vals == GriddataValues(P, tris, n, m, artifact)
    IN  IF NaN \in vals THEN NearestValues(P, n) ELSE vals

\* cell number k of the grid, row by row
CellAt(k) == <<k \div GridN, k % GridN>>

\* the grids over the first k cells that hold one candidate value per cell
RECURSIVE GridChoices(_, _)
GridChoices(k, cand) ==
    IF k = 0 THEN {NoGrid}
    ELSE { [x \in { CellAt(i) : i \in 0..(k - 1) } |->
              IF x = CellAt(k - 1) THEN v ELSE g[x]] :
             v \in cand[CellAt(k - 1)], g \in GridChoices(k - 1, cand) }

\* the grids griddata plus the nearest-neighbour NaN fill can produce
InterpolatedGrids(P, m, artifact) ==
    LET tris == Triangles(P)
    IN  GridChoices(GridN * GridN,
                    [c \in Cells |-> FilledValues(P, tris, Node(P, c), m, artifact)])

HasNaN(P, m) ==
    LET tris == Triangles(P)
    IN  \E c \in Cells : NaN \in GriddataValues(P, tris, Node(P, c), m, 0)

(***************************************************************************)
(* SurfaceValidator                                                        *)
(***************************************************************************)
\* the surface as returned before the clip was added
UnclippedGrid(g) == g

\* a validator that only raises the cells below the lower bound
FloorGrid(g) == [c \in DOMAIN g |-> IF g[c] < SIGMA_MIN THEN SIGMA_MIN ELSE g[c]]

ClipGrid(g) == [c \in DOMAIN g |-> Clip(g[c], SIGMA_MIN, SIGMA_MAX)]

ClipCount(g) == Cardinality({ c \in DOMAIN g : g[c] < SIGMA_MIN \/ g[c] > SIGMA_MAX })

\* degeneracy check that only counts the points
TooFewPoints(P) == Cardinality(P) < MIN_POINTS

Degenerate(P) ==
    \/ Cardinality(P) < MIN_POINTS
    \/ Cardinality(TimesOf(P)) <= 1
    \/ Cardinality(StrikesOf(P)) <= 1

(***************************************************************************)
(* SurfaceBuilder                                                          *)
(***************************************************************************)
Terminal == {"Done", "Failed"}

\* calls are built first, then puts
Active(t) == t = "calls" \/ stage["calls"] \in Terminal

BuilderInit ==
    /\ spot \in Spots
    /\ method \in Methods
    /\ chain \in Chains
    /\ stage = [t \in OptionTypes |-> "Filtering"]
    /\ reason = [t \in OptionTypes |-> "None"]
    /\ filtered = [t \in OptionTypes |-> {}]
    /\ running = [t \in OptionTypes |-> {}]
    /\ points = [t \in OptionTypes |-> {}]
    /\ dropped = [t \in OptionTypes |-> 0]
    /\ timeAxis = [t \in OptionTypes |-> NoAxis]
    /\ strikeAxis = [t \in OptionTypes |-> NoAxis]
    /\ rawGrid = [t \in OptionTypes |-> NoGrid]
    /\ grid = [t \in OptionTypes |-> NoGrid]
    /\ clipCount = [t \in OptionTypes |-> 0]
    /\ extrapolated = [t \in OptionTypes |-> FALSE]
    /\ trail = [t \in OptionTypes |-> <<"Filtering">>]

\* the flow that returns the interpolated grid without validating it
NextStageUnvalidated(s) ==
    CASE s = "Filtering" -> "Solving"
      [] s = "Solving" -> "Interpolating"
      [] s = "Interpolating" -> "Done"
      [] OTHER -> s

NextStage(s) ==
    CASE s = "Filtering" -> "Solving"
      [] s = "Solving" -> "Interpolating"
      [] s = "Interpolating" -> "Validating"
      [] s = "Validating" -> "Done"
      [] OTHER -> s

\* trail records the stages a build has been in, oldest first
Enter(t, s) ==
    /\ stage' = [stage EXCEPT ![t] = s]
    /\ trail' = [trail EXCEPT ![t] = Append(@, s)]

Advance(t) == Enter(t, NextStage(stage[t])) /\ UNCHANGED reason

\* a failure that aborts the whole request
FailRequest(t, why) ==
    /\ stage' = [u \in OptionTypes |-> "Failed"]
    /\ trail' = [u \in OptionTypes |-> Append(trail[u], "Failed")]
    /\ reason' = [u \in OptionTypes |-> why]

Fail(t, why) ==
    /\ Enter(t, "Failed")
    /\ reason' = [reason EXCEPT ![t] = why]

\* a validation that takes a quote below the time floor for invalid input
ValidAboveFloor(S, c) == S > 0 /\ \A x \in c : x.K > 0 /\ x.T >= TIME_FLOOR

\* the parameters of a request are valid: positive spot, strikes and times
ValidInput(S, c) == S > 0 /\ \A x \in c : x.K > 0 /\ x.T > 0

\* Filtering: reject invalid parameters; screen the raw quotes; dispatch one
\* solve per retained quote
FilterQuotes(t) ==
    /\ Active(t)
    /\ stage[t] = "Filtering"
    /\ IF ~ValidInput(spot, chain)
       THEN Fail(t, "InputError") /\ UNCHANGED <<filtered, running>>
       ELSE LET kept == QuoteFilter(RawQuotes(t), spot) IN
            /\ filtered' = [filtered EXCEPT ![t] = kept]
            /\ IF kept = {}
               THEN Fail(t, "InsufficientData") /\ UNCHANGED running
               ELSE Advance(t) /\ running' = [running EXCEPT ![t] = kept]
    /\ UNCHANGED <<solver, spot, method, chain, points, dropped, timeAxis, strikeAxis, rawGrid, grid, clipCount, extrapolated>>

\* a solver failure that cancels the solves still running
CancelOnFailure(t, q) ==
    IF q.iv.kind = "converged" THEN running[t] \ {q} ELSE {}

\* a dispatch that keeps the first completed solve and abandons the rest
FirstCompletionWins(t, q) == {}

\* a completed solve that stays in the running set
SolveNeverLeaves(t, q) == running[t]

StillRunning(t, q) == running[t] \ {q}

\* one per-quote solve completes, with success or failure
SolveComplete(t, q) ==
    /\ stage[t] = "Solving"
    /\ q \in running[t]
    /\ running' = [running EXCEPT ![t] = StillRunning(t, q)]
    /\ IF q.iv.kind = "converged"
       THEN points' = [points EXCEPT ![t] = @ \cup {SolvedPoint(q)}] /\ UNCHANGED dropped
       ELSE dropped' = [dropped EXCEPT ![t] = @ + 1] /\ UNCHANGED points
    /\ UNCHANGED <<solver, spot, method, chain, stage, reason, trail, filtered, timeAxis, strikeAxis, rawGrid, grid, clipCount, extrapolated>>

\* a join that waits for the first completed solve only
AnySolveComplete(t) == running[t] # filtered[t]

AllSolvesComplete(t) == running[t] = {}

\* the post-solve barrier
Join(t) ==
    /\ stage[t] = "Solving"
    /\ AllSolvesComplete(t)
    /\ IF points[t] = {}
       THEN Fail(t, "InsufficientData")
       ELSE Advance(t)
    /\ UNCHANGED <<solver, spot, method, chain, filtered, running, points, dropped, timeAxis, strikeAxis, rawGrid, grid, clipCount, extrapolated>>

\* Interpolating: target grid axes, scattered points to grid, then the NaN
\* fill
Interpolate(t) ==
    /\ stage[t] = "Interpolating"
    /\ timeAxis' = [timeAxis EXCEPT ![t] = TimeAxis(points[t])]
    /\ strikeAxis' = [strikeAxis EXCEPT ![t] = StrikeAxis(points[t])]
    /\ \E artifact \in (IF method = "cubic" THEN CubicArtifacts ELSE {0}) :
         \E g \in InterpolatedGrids(points[t], method, artifact) :
            rawGrid' = [rawGrid EXCEPT ![t] = g]
    /\ extrapolated' = [extrapolated EXCEPT ![t] = HasNaN(points[t], method)]
    /\ Advance(t)
    /\ UNCHANGED <<solver, spot, method, chain, filtered, running, points, dropped, grid, clipCount>>

\* a validator that treats a clipped or filled cell as an error
RejectedForArtifacts(t) ==
    Degenerate(points[t]) \/ ClipCount(rawGrid[t]) > 0 \/ extrapolated[t]

\* the only ground on which the validator fails a build
Rejected(t) == Degenerate(points[t])

\* Validating: degeneracy check, element-wise clip, clip count
Validate(t) ==
    /\ stage[t] = "Validating"
    /\ IF Rejected(t)
       THEN Fail(t, "InsufficientData") /\ UNCHANGED <<grid, clipCount>>
       ELSE /\ grid' = [grid EXCEPT ![t] = ClipGrid(rawGrid[t])]
            /\ clipCount' = [clipCount EXCEPT ![t] = ClipCount(rawGrid[t])]
            /\ Advance(t)
    /\ UNCHANGED <<solver, spot, method, chain, filtered, running, points, dropped, timeAxis, strikeAxis, rawGrid, extrapolated>>

BuilderNext ==
    \E t \in OptionTypes :
        \/ FilterQuotes(t)
        \/ \E q \in running[t] : SolveComplete(t, q)
        \/ Join(t)
        \/ Interpolate(t)
        \/ Validate(t)

Init == BuilderInit /\ SolverInit /\ OutsideOff

Next == BuilderNext /\ UNCHANGED outsideVars

Spec == Init /\ [][Next]_vars

\* the contracts of the core chain whose call and put both pass the floors
LiquidChain == { c \in CoreChain : c.T >= TIME_FLOOR /\ c.callPrice >= PRICE_FLOOR }

\* chains of the termination check: at most one contract, the two ladders,
\* and the liquid chain, on which both types return a surface
LiveChains ==
    { c \in Chains : Cardinality(c) <= 1 } \cup { StrikeLadder, ExpiryLadder, LiquidChain }

LiveInit == Init /\ chain \in LiveChains

\* the builder is synchronous and every dispatched solve is scheduled
LiveSpec == LiveInit /\ [][Next]_vars /\ WF_vars(Next)

\* requests with invalid parameters and requests whose quotes are valid but
\* unusable: spot zero, negative or positive; strike zero or negative; time
\* zero or negative; time and price below the floors; deep in the money
InputSpots == {-100, 0, 100}

InputContracts ==
    { Contract(  0,  250, 42700, Converged(5),   37700, Converged(8)),
      Contract(-90,  250, 42700, Converged(5),   37700, Converged(8)),
      Contract(100,    0, 42700, Converged(5),   37700, Converged(8)),
      Contract(100, -250, 42700, Converged(5),   37700, Converged(8)),
      Contract(100,    1,  8000, Converged(90),     10, Converged(20)),
      Contract(125,  250,    50, Converged(300), 250000, Converged(35)),
      Contract(100,  500, 60400, Converged(20),  50400, DegenerateVega) }

InputInit ==
    /\ SolverInit
    /\ spot \in InputSpots
    /\ method \in Methods
    /\ chain \in SUBSET InputContracts
    /\ stage = [t \in OptionTypes |-> "Filtering"]
    /\ reason = [t \in OptionTypes |-> "None"]
    /\ filtered = [t \in OptionTypes |-> {}]
    /\ running = [t \in OptionTypes |-> {}]
    /\ points = [t \in OptionTypes |-> {}]
    /\ dropped = [t \in OptionTypes |-> 0]
    /\ timeAxis = [t \in OptionTypes |-> NoAxis]
    /\ strikeAxis = [t \in OptionTypes |-> NoAxis]
    /\ rawGrid = [t \in OptionTypes |-> NoGrid]
    /\ grid = [t \in OptionTypes |-> NoGrid]
    /\ clipCount = [t \in OptionTypes |-> 0]
    /\ extrapolated = [t \in OptionTypes |-> FALSE]
    /\ trail = [t \in OptionTypes |-> <<"Filtering">>]
    /\ OutsideOff

InputSpec == InputInit /\ [][Next]_vars

\* the pipeline before any request: no chain, both builds untouched
PipelineOff ==
    /\ SolverInit
    /\ spot = 100 /\ method = "linear" /\ chain = {}
    /\ stage = [t \in OptionTypes |-> "Filtering"]
    /\ reason = [t \in OptionTypes |-> "None"]
    /\ filtered = [t \in OptionTypes |-> {}]
    /\ running = [t \in OptionTypes |-> {}]
    /\ points = [t \in OptionTypes |-> {}]
    /\ dropped = [t \in OptionTypes |-> 0]
    /\ timeAxis = [t \in OptionTypes |-> NoAxis]
    /\ strikeAxis = [t \in OptionTypes |-> NoAxis]
    /\ rawGrid = [t \in OptionTypes |-> NoGrid]
    /\ grid = [t \in OptionTypes |-> NoGrid]
    /\ clipCount = [t \in OptionTypes |-> 0]
    /\ extrapolated = [t \in OptionTypes |-> FALSE]
    /\ trail = [t \in OptionTypes |-> <<"Filtering">>]

\* the solver alone, on one quote
SolverSpecInit == PipelineOff /\ OutsideOff

SolverSpecNext == SolverNext /\ UNCHANGED outsideVars

SolverSpec == SolverSpecInit /\ [][SolverSpecNext]_vars

\* the solver is a synchronous loop: once called it keeps running
SolverLiveSpec == SolverSpec /\ WF_vars(SolverSpecNext)

(***************************************************************************)
(* Properties                                                              *)
(***************************************************************************)
PostSolve == {"Interpolating", "Validating", "Done"}

\* the solved points a type's own quotes and the shared spot determine
OwnPoints(t) ==
    { SolvedPoint(q) :
        q \in { x \in RawQuotes(t) :
                  /\ x.price >= PRICE_FLOOR /\ x.T >= TIME_FLOOR
                  /\ (t = "calls" => 100 * spot <= CALL_MONEYNESS_MAX * x.K)
                  /\ (t = "puts" => 100 * spot >= PUT_MONEYNESS_MIN * x.K)
                  /\ x.iv.kind = "converged" } }

IterateWithinBounds ==
    /\ SIGMA_MIN <= solver.sigma /\ solver.sigma <= SIGMA_MAX
    /\ solver.sigma > 0
    /\ (solver.iter = 0 => solver.sigma = SIGMA_INIT)

\* an update whose unclipped Newton proposal was non-positive
NonPositiveProposalClipped ==
    /\ solver.iter > 0
    /\ solver.proposal <= 0
    /\ solver.sigma = SIGMA_MIN

\* C3: Interpolating is entered, and everything after it happens, only when
\* no dispatched solve is still running: every retained quote's solve has
\* completed, with success or failure.
BarrierBeforeInterpolating ==
    \A t \in OptionTypes :
        stage[t] \in PostSolve =>
            /\ running[t] = {}
            /\ filtered[t] # {}
            /\ Cardinality(points[t]) + dropped[t] >= 1

\* Interpolating reached after several solves, some converged, one failed
BarrierPassedAfterMixedSolves ==
    \E t \in OptionTypes :
        /\ stage[t] = "Interpolating"
        /\ Cardinality(filtered[t]) >= 3
        /\ dropped[t] >= 1
        /\ Cardinality(points[t]) >= 2

\* C4: the outcome of one option type depends only on its own quotes and the
\* shared spot: a finished build is Done exactly when its own solved points
\* are sufficient, with exactly those points, whatever happened to the other
\* type; a type that has not started is untouched by the other's failure.
TypesIndependent ==
    \A t \in OptionTypes :
        /\ (stage[t] \in Terminal =>
              /\ (stage[t] = "Done" <=> ~(\/ Cardinality(OwnPoints(t)) < MIN_POINTS
                                           \/ Cardinality(TimesOf(OwnPoints(t))) <= 1
                                           \/ Cardinality(StrikesOf(OwnPoints(t))) <= 1))
              /\ (stage[t] = "Done" => points[t] = OwnPoints(t)))
        /\ points[t] \subseteq OwnPoints(t)
        /\ (stage[t] = "Filtering" => reason[t] = "None" /\ trail[t] = <<"Filtering">>)

\* Scenario B: exactly 3 put quotes survive filtering, puts end in
\* InsufficientData, calls end in Done
PutsFailCallsDone ==
    /\ Cardinality(filtered["puts"]) = 3
    /\ stage["puts"] = "Failed"
    /\ reason["puts"] = "InsufficientData"
    /\ stage["calls"] = "Done"
    /\ DOMAIN grid["calls"] = Cells

\* C5: a type whose filter removes every quote, or whose points surviving
\* filtering and solving are fewer than 4 or span a single T or a single K,
\* ends Failed with InsufficientData and returns no grid.
InsufficientDataFails ==
    \A t \in OptionTypes :
        LET P == OwnPoints(t)
            insufficient == \/ Cardinality(P) < MIN_POINTS
                            \/ \A p, r \in P : p.T = r.T
                            \/ \A p, r \in P : p.K = r.K
        IN  /\ (insufficient => stage[t] # "Done" /\ grid[t] = NoGrid)
            /\ (insufficient /\ stage[t] \in Terminal =>
                  stage[t] = "Failed" /\ reason[t] = "InsufficientData")
            /\ (stage[t] = "Failed" => grid[t] = NoGrid)

\* four solved put points on a single expiry, failed in Validating, and
\* three solved call points, failed too: neither returns a grid
LadderBuildsFail ==
    /\ Cardinality(points["puts"]) >= MIN_POINTS
    /\ Cardinality(TimesOf(points["puts"])) = 1
    /\ stage["puts"] = "Failed"
    /\ reason["puts"] = "InsufficientData"
    /\ Cardinality(points["calls"]) = 3
    /\ stage["calls"] = "Failed"

\* C6: every call quote retained by QuoteFilter, dispatched to the solver or
\* solved has S/K <= 1.10, and every such put quote has S/K >= 0.90.
RetainedMoneyness ==
    \A t \in OptionTypes :
        /\ \A q \in filtered[t] \cup running[t] :
              /\ q.type = t
              /\ (t = "calls" => 100 * spot <= 110 * q.K)
              /\ (t = "puts" => 100 * spot >= 90 * q.K)
        /\ \A p \in points[t] :
              /\ (t = "calls" => 100 * spot <= 110 * p.K)
              /\ (t = "puts" => 100 * spot >= 90 * p.K)

\* a call with S/K > 1.10 and a put with S/K < 0.90, both above the price
\* and time floors, were dropped, and a call with S/K = 1.10 was retained
DeepITMDropped ==
    /\ stage["puts"] # "Filtering"
    /\ \E q \in RawQuotes("calls") \ filtered["calls"] :
          100 * spot > 110 * q.K /\ q.price >= PRICE_FLOOR /\ q.T >= TIME_FLOOR
    /\ \E q \in RawQuotes("puts") \ filtered["puts"] :
          100 * spot < 90 * q.K /\ q.price >= PRICE_FLOOR /\ q.T >= TIME_FLOOR
    /\ \E q \in filtered["calls"] : 100 * spot = 110 * q.K

\* C7: no quote with market price below 0.01 or time to expiry below 0.01
\* year is retained by QuoteFilter, dispatched to the solver or solved,
\* whatever its moneyness and option type.
FloorsEnforced ==
    \A t \in OptionTypes :
        /\ \A q \in filtered[t] \cup running[t] : q.price >= 100 /\ q.T >= 10
        /\ \A p \in points[t] : p.T >= 10
        /\ filtered[t] \subseteq RawQuotes(t)
        /\ running[t] \subseteq filtered[t]

\* Scenario C (T = 0.001, price = 0.001) dropped from the puts while other
\* puts are retained; a call missing only the time floor and a call missing
\* only the price floor are dropped too
ScenarioCDropped ==
    /\ stage["puts"] = "Solving"
    /\ \E q \in RawQuotes("puts") \ filtered["puts"] : q.T = 1 /\ q.price = 10
    /\ \E q \in RawQuotes("calls") \ filtered["calls"] : q.T < TIME_FLOOR /\ q.price >= PRICE_FLOOR
    /\ \E q \in RawQuotes("calls") \ filtered["calls"] : q.T >= TIME_FLOOR /\ q.price < PRICE_FLOOR

\* C8: a failed solve is dropped and counted and nothing else: the points
\* are exactly the completed retained quotes that converged, the count is
\* the number of completed retained quotes that failed, the other solves
\* keep running, and a build fails only at the barrier or later for lack of
\* points, never because a solve failed.
SolverFailureTolerated ==
    \A t \in OptionTypes :
        LET completed == filtered[t] \ running[t] IN
        /\ points[t] = { SolvedPoint(q) : q \in { x \in completed : x.iv.kind = "converged" } }
        /\ dropped[t] = Cardinality({ x \in completed : x.iv.kind # "converged" })
        /\ (stage[t] = "Failed" => running[t] = {} /\ reason[t] = "InsufficientData")
        /\ (stage[t] = "Failed" /\ filtered[t] # {} =>
              \/ Cardinality(points[t]) < MIN_POINTS
              \/ Cardinality(TimesOf(points[t])) <= 1
              \/ Cardinality(StrikesOf(points[t])) <= 1)

\* a build Done although one of its solves failed, while the other type is
\* still solving with one failure counted and solves still running
DoneDespiteFailedSolve ==
    /\ stage["calls"] = "Done"
    /\ dropped["calls"] >= 1
    /\ stage["puts"] = "Solving"
    /\ dropped["puts"] >= 1
    /\ running["puts"] # {}

StagePath == <<"Filtering", "Solving", "Interpolating", "Validating", "Done">>

TypedSolverOutcome ==
    /\ solver.status \in {"idle", "iterating", "converged", "NonConvergence", "DegenerateVega"}
    /\ (solver.status = "converged" => Abs(solver.loss) < PRICE_TOLERANCE)
    /\ (solver.status = "NonConvergence" =>
          solver.iter = MaxIter /\ Abs(solver.loss) >= PRICE_TOLERANCE)
    /\ (solver.status = "DegenerateVega" =>
          /\ Abs(solver.vega) < VEGA_FLOOR
          /\ solver.iter < MaxIter
          /\ Abs(solver.loss) >= PRICE_TOLERANCE)

\* sigma pinned at the upper bound with the tolerance missed: reported as
\* NonConvergence
PinnedReportedAsFailure ==
    /\ solver.status = "NonConvergence"
    /\ solver.sigma = SIGMA_MAX
    /\ solver.proposal > SIGMA_MAX

SolverFailures == {"NonConvergence", "DegenerateVega"}

\* C11: the solver loop terminates after at most MaxIter iterations: a
\* residual with |price(sigma) - market_price| < 0.001 ends it at once with
\* the current sigma, MaxIter iterations without meeting the tolerance end
\* it with a failure, and every call eventually returns, also when the
\* iterate oscillates or stays pinned at a bound.
SolverTerminates ==
    /\ [](solver.iter <= MaxIter)
    /\ [][solver.status = "iterating" /\ Abs(solver.loss) < PRICE_TOLERANCE =>
            /\ solver'.status = "converged"
            /\ solver'.sigma = solver.sigma
            /\ solver'.iter = solver.iter]_vars
    /\ [][solver.status = "iterating" /\ Abs(solver.loss) >= PRICE_TOLERANCE
            /\ solver.iter = MaxIter => solver'.status \in SolverFailures]_vars
    /\ (solver.status = "iterating" ~> solver.status \in {"converged"} \cup SolverFailures)

\* MaxIter iterations run with the iterate pinned at the lower bound, ended
\* as NonConvergence
PinnedUntilMaxIter ==
    /\ solver.status = "NonConvergence"
    /\ solver.iter = MaxIter
    /\ solver.sigma = SIGMA_MIN
    /\ solver.proposal < SIGMA_MIN

\* everything a build of one option type holds
BuildState(t) ==
    <<stage[t], reason[t], filtered[t], running[t], points[t], dropped[t],
      timeAxis[t], strikeAxis[t], rawGrid[t], grid[t], clipCount[t],
      extrapolated[t], trail[t]>>

\* C12: when every dispatched solve is eventually scheduled, the builds of
\* both option types eventually have reached Done or Failed; a build that
\* has returned has no solve running and nothing of it changes afterwards.
BuildsTerminate ==
    /\ <>(\A t \in OptionTypes : stage[t] \in Terminal)
    /\ [](\A t \in OptionTypes : stage[t] \in Terminal => running[t] = {})
    /\ [][\A t \in OptionTypes :
            stage[t] \in Terminal => BuildState(t)' = BuildState(t)]_vars

\* both builds returned a surface after dispatching at least four solves
\* each, and nothing is left running
BothReturnedNothingRunning ==
    \A t \in OptionTypes :
        /\ stage[t] = "Done"
        /\ Cardinality(filtered[t]) >= MIN_POINTS
        /\ running[t] = {}

SigmaInRange(x) == 0 <= x /\ x <= SIGMA_MAX

\* C14 (as stated): at every stage boundary outside the solver's loop - the
\* solved points, the interpolator's output grid, the validator's output
\* grid - every sigma is non-negative and at most 5.0.
SigmaBoundedAtEveryBoundary ==
    \A t \in OptionTypes :
        /\ \A p \in points[t] : SigmaInRange(p.sigma)
        /\ \A c \in DOMAIN rawGrid[t] : SigmaInRange(rawGrid[t][c])
        /\ \A c \in DOMAIN grid[t] : SigmaInRange(grid[t][c])

\* C14 (amended): the solved points, the validator's output grid, and the
\* interpolator's output grid of the linear method hold only sigmas that
\* are non-negative and at most 5.0; the cubic interpolator's output grid
\* is bounded only after the Validator has clipped it.
SigmaBoundedOutsideCubic ==
    \A t \in OptionTypes :
        /\ \A p \in points[t] : SigmaInRange(p.sigma)
        /\ (method = "linear" => \A c \in DOMAIN rawGrid[t] : SigmaInRange(rawGrid[t][c]))
        /\ \A c \in DOMAIN grid[t] : SigmaInRange(grid[t][c])

\* the interpolator has handed a linear grid with nearest-neighbour filled
\* cells to the Validator
LinearGridHandedOver ==
    \E t \in OptionTypes :
        /\ method = "linear"
        /\ stage[t] = "Validating"
        /\ DOMAIN rawGrid[t] = Cells
        /\ extrapolated[t]
        /\ Cardinality(points[t]) >= MIN_POINTS

Min2(a, b) == IF a <= b THEN a ELSE b
Max2(a, b) == IF a >= b THEN a ELSE b

\* C15: the validator's output is the element-wise clip of its input: each
\* cell x becomes min(max(x, 0.01), 5.0), a cell already in [0.01, 5.0] is
\* unchanged, and the clip count is the number of input cells outside
\* [0.01, 5.0]; no count and no grid exist before validation.
ValidatorClipsElementwise ==
    \A t \in OptionTypes :
        IF stage[t] = "Done"
        THEN /\ DOMAIN grid[t] = DOMAIN rawGrid[t]
             /\ \A c \in DOMAIN rawGrid[t] :
                   LET x == rawGrid[t][c] IN
                   /\ grid[t][c] = Min2(Max2(x, SIGMA_MIN), SIGMA_MAX)
                   /\ (SIGMA_MIN <= x /\ x <= SIGMA_MAX => grid[t][c] = x)
             /\ clipCount[t] =
                   Cardinality({ c \in DOMAIN rawGrid[t] :
                                   rawGrid[t][c] < SIGMA_MIN \/ rawGrid[t][c] > SIGMA_MAX })
             /\ clipCount[t] = Cardinality({ c \in Cells : grid[t][c] # rawGrid[t][c] })
        ELSE grid[t] = NoGrid /\ clipCount[t] = 0

\* one surface with some cells lowered to 5.0 and others left unchanged,
\* the other with cells raised to 0.01, each with its count
ClippedCellsCounted ==
    \E t, u \in OptionTypes :
        /\ stage[t] = "Done" /\ stage[u] = "Done"
        /\ clipCount[t] >= 2 /\ clipCount[t] < Cardinality(Cells)
        /\ \E c \in Cells : rawGrid[t][c] > SIGMA_MAX /\ grid[t][c] = SIGMA_MAX
        /\ clipCount[u] >= 1
        /\ \E c \in Cells : rawGrid[u][c] < SIGMA_MIN /\ grid[u][c] = SIGMA_MIN

Interpolated == {"Validating", "Done"}

\* the grid node n lies outside the convex hull the triangles tris cover
OutsideHull(tris, n) == \A tri \in tris : ~Contains(tri, n)

\* C17: after the interpolator, for linear and for cubic, the grid handed
\* to the Validator has a value in every cell and none is NaN; every cell
\* outside the convex hull of the solved (T, K) points holds the sigma of
\* a solved point no other solved point is closer to, and over a hull with
\* non-zero area the fill is flagged exactly when such a cell exists.
NoUndefinedCell ==
    \A t \in OptionTypes :
        stage[t] \in Interpolated =>
            \A tris \in {Triangles(points[t])} :
                /\ DOMAIN rawGrid[t] = Cells
                /\ \A c \in Cells :
                      \A n \in {Node(points[t], c)} :
                          /\ rawGrid[t][c] # NaN
                          /\ (OutsideHull(tris, n) =>
                                \E p \in points[t] :
                                    /\ rawGrid[t][c] = p.sigma
                                    /\ \A q \in points[t] : ~Closer(q, p, n))
                /\ (tris # {} =>
                      (extrapolated[t] <=>
                         \E c \in Cells : OutsideHull(tris, Node(points[t], c))))

\* a cubic grid handed to the Validator of which some cells lie inside
\* the hull and some, filled by nearest neighbour, outside
CubicGridPartlyFilled ==
    \E t \in OptionTypes :
        /\ method = "cubic"
        /\ stage[t] = "Validating"
        /\ \E c \in Cells : OutsideHull(Triangles(points[t]), Node(points[t], c))
        /\ \E c \in Cells :
              /\ ~OutsideHull(Triangles(points[t]), Node(points[t], c))
              /\ \A p \in points[t] : Site(p) # Node(points[t], c)

SigmasOf(P) == { p.sigma : p \in P }

\* C18: with linear interpolation the value at every grid point inside the
\* convex hull of the input (T, K) samples lies within [min, max] of the
\* sigmas of a triangle of samples that contains the point, hence within
\* [min(input sigma), max(input sigma)]: no overshoot and no undershoot.
LinearWithinInputRange ==
    \A t \in OptionTypes :
        method = "linear" /\ stage[t] \in Interpolated =>
            \A tris \in {Triangles(points[t])} :
                \A c \in Cells :
                    \A n \in {Node(points[t], c)} :
                        ~OutsideHull(tris, n) =>
                            /\ MinOf(SigmasOf(points[t])) <= rawGrid[t][c]
                            /\ rawGrid[t][c] <= MaxOf(SigmasOf(points[t]))
                            /\ \E tri \in tris :
                                  /\ Contains(tri, n)
                                  /\ MinOf(SigmasOf(tri)) <= rawGrid[t][c]
                                  /\ rawGrid[t][c] <= MaxOf(SigmasOf(tri))

\* a linear grid with a cell inside the hull, away from every sample,
\* whose value lies strictly between the smallest and the largest solved
\* sigma, over samples whose sigmas span 0.05 to 2.5
LinearCellBetweenSamples ==
    \E t \in OptionTypes :
        /\ method = "linear"
        /\ stage[t] \in Interpolated
        /\ MinOf(SigmasOf(points[t])) <= 5
        /\ MaxOf(SigmasOf(points[t])) >= 250
        /\ \E c \in Cells :
              /\ ~OutsideHull(Triangles(points[t]), Node(points[t], c))
              /\ \A p \in points[t] : Site(p) # Node(points[t], c)
              /\ MinOf(SigmasOf(points[t])) < rawGrid[t][c]
              /\ rawGrid[t][c] < MaxOf(SigmasOf(points[t]))

StrictlyAscending(axis) ==
    \A i, j \in DOMAIN axis : i < j => axis[i] < axis[j]

\* C19: in every returned surface the time axis and the strike axis are
\* strictly ascending, each with GridN values from the smallest to the
\* largest solved T and K, and the sigma grid has exactly one cell for
\* each (time, strike) pair of the two axes.
AxesAscendingGridComplete ==
    \A t \in OptionTypes :
        stage[t] = "Done" =>
            /\ DOMAIN timeAxis[t] = 0..(GridN - 1)
            /\ DOMAIN strikeAxis[t] = 0..(GridN - 1)
            /\ StrictlyAscending(timeAxis[t])
            /\ StrictlyAscending(strikeAxis[t])
            /\ \A p \in points[t] :
                  /\ timeAxis[t][0] <= p.T * (GridN - 1)
                  /\ p.T * (GridN - 1) <= timeAxis[t][GridN - 1]
                  /\ strikeAxis[t][0] <= p.K * (GridN - 1)
                  /\ p.K * (GridN - 1) <= strikeAxis[t][GridN - 1]
            /\ DOMAIN grid[t] = (DOMAIN timeAxis[t]) \X (DOMAIN strikeAxis[t])
            /\ Cardinality(DOMAIN grid[t]) = GridN * GridN

\* a returned surface over three strikes and two expiries whose axes start
\* at the smallest and end at the largest solved strike and expiry
SurfaceOverThreeStrikes ==
    \E t \in OptionTypes :
        /\ stage[t] = "Done"
        /\ Cardinality(StrikesOf(points[t])) >= 3
        /\ Cardinality(TimesOf(points[t])) >= 2
        /\ \E p, q \in points[t] :
              /\ strikeAxis[t][0] = p.K * (GridN - 1)
              /\ strikeAxis[t][GridN - 1] = q.K * (GridN - 1)
              /\ p.K < q.K
        /\ timeAxis[t][0] < timeAxis[t][GridN - 1]

\* no quote of type t passes the floors and the moneyness screen
NoUsableQuote(t) ==
    \A c \in chain :
        LET price == IF t = "calls" THEN c.callPrice ELSE c.putPrice IN
        \/ price < PRICE_FLOOR
        \/ c.T < TIME_FLOOR
        \/ t = "calls" /\ 100 * spot > CALL_MONEYNESS_MAX * c.K
        \/ t = "puts" /\ 100 * spot < PUT_MONEYNESS_MIN * c.K

InvalidParameters == spot <= 0 \/ \E c \in chain : c.K <= 0 \/ c.T <= 0

RetainedWithinDocBand ==
    \A t \in OptionTypes :
        \A q \in filtered[t] :
            /\ (t = "calls" => 100 * q.K >= 90 * spot)
            /\ (t = "puts" => 100 * q.K <= 110 * spot)

(***************************************************************************)
(* Two surface requests served at the same time.  A request is             *)
(* parameterized explicitly by its spot, option type, interpolation method *)
(* and quote list, and owns its build; the steps of the two requests and   *)
(* the solves of each interleave freely.                                   *)
(***************************************************************************)
Requests == {1, 2}

Parameters(S, t, m, c) == [S |-> S, type |-> t, method |-> m, chain |-> c]

PairInputs ==
    { Parameters(100, "calls", "linear", LiquidChain),
      Parameters(100, "puts", "cubic", CoreChain),
      Parameters(110, "puts", "linear", LiquidChain),
      Parameters(100, "calls", "cubic", StrikeLadder),
      Parameters(100, "puts", "linear", {}) }

FreshBuild ==
    [stage |-> "Filtering", reason |-> "None", filtered |-> {}, running |-> {},
     points |-> {}, dropped |-> 0, timeAxis |-> NoAxis, strikeAxis |-> NoAxis,
     rawGrid |-> NoGrid, grid |-> NoGrid]

\* OptionQuote records of a request, assembled from its own quote list
QuotesOf(x) ==
    { [K |-> c.K, T |-> c.T, type |-> x.type,
       price |-> IF x.type = "calls" THEN c.callPrice ELSE c.putPrice,
       iv |-> IF x.type = "calls" THEN c.callIv ELSE c.putIv] : c \in x.chain }

\* a module-level point list that every request appends to and reads
SharedPoints(r) == UNION { build[u].points : u \in Requests }

\* the solved points of a request live in its own build
PointsOf(r) == build[r].points

PairFilter(r) ==
    /\ build[r].stage = "Filtering"
    /\ LET x == request[r]
           kept == QuoteFilter(QuotesOf(x), x.S)
       IN  build' = [build EXCEPT ![r] =
              IF ~ValidInput(x.S, x.chain)
              THEN [@ EXCEPT !.stage = "Failed", !.reason = "InputError"]
              ELSE IF kept = {}
                   THEN [@ EXCEPT !.stage = "Failed", !.reason = "InsufficientData"]
                   ELSE [@ EXCEPT !.stage = "Solving", !.filtered = kept,
                                  !.running = kept]]
    /\ UNCHANGED <<request, builderVars, solverVars, frontVars>>

PairSolveComplete(r, q) ==
    /\ build[r].stage = "Solving"
    /\ q \in build[r].running
    /\ build' = [build EXCEPT ![r] =
          IF q.iv.kind = "converged"
          THEN [@ EXCEPT !.running = @ \ {q},
                         !.points = PointsOf(r) \cup {SolvedPoint(q)}]
          ELSE [@ EXCEPT !.running = @ \ {q}, !.dropped = @ + 1]]
    /\ UNCHANGED <<request, builderVars, solverVars, frontVars>>

PairJoin(r) ==
    /\ build[r].stage = "Solving"
    /\ build[r].running = {}
    /\ build' = [build EXCEPT ![r] =
          IF PointsOf(r) = {}
          THEN [@ EXCEPT !.stage = "Failed", !.reason = "InsufficientData"]
          ELSE [@ EXCEPT !.stage = "Interpolating"]]
    /\ UNCHANGED <<request, builderVars, solverVars, frontVars>>

PairInterpolate(r) ==
    /\ build[r].stage = "Interpolating"
    /\ LET m == request[r].method
           P == PointsOf(r)
       IN  \E artifact \in (IF m = "cubic" THEN CubicArtifacts ELSE {0}) :
             \E g \in InterpolatedGrids(P, m, artifact) :
                build' = [build EXCEPT ![r] =
                   [@ EXCEPT !.stage = "Validating", !.timeAxis = TimeAxis(P),
                             !.strikeAxis = StrikeAxis(P), !.rawGrid = g]]
    /\ UNCHANGED <<request, builderVars, solverVars, frontVars>>

PairValidate(r) ==
    /\ build[r].stage = "Validating"
    /\ build' = [build EXCEPT ![r] =
          IF Degenerate(PointsOf(r))
          THEN [@ EXCEPT !.stage = "Failed", !.reason = "InsufficientData"]
          ELSE [@ EXCEPT !.stage = "Done", !.grid = ClipGrid(build[r].rawGrid)]]
    /\ UNCHANGED <<request, builderVars, solverVars, frontVars>>

PairInit ==
    /\ PipelineOff /\ FrontOff
    /\ request \in [Requests -> PairInputs]
    /\ build = [r \in Requests |-> FreshBuild]

PairNext ==
    \E r \in Requests :
        \/ PairFilter(r)
        \/ \E q \in build[r].running : PairSolveComplete(r, q)
        \/ PairJoin(r)
        \/ PairInterpolate(r)
        \/ PairValidate(r)

PairSpec == PairInit /\ [][PairNext]_vars

\* what a request returns when it runs alone: the pipeline as a function of
\* the request's own parameters
SoloPoints(x) ==
    { SolvedPoint(q) :
        q \in { y \in QuoteFilter(QuotesOf(x), x.S) : y.iv.kind = "converged" } }

SoloOutcome(x) ==
    IF ~ValidInput(x.S, x.chain) THEN "InputError"
    ELSE IF SoloPoints(x) = {} \/ Degenerate(SoloPoints(x)) THEN "InsufficientData"
    ELSE "Done"

Null == [null |-> TRUE]

DatasetTypes == {"price", "ma5", "ma20", "ma40"}

CHART_STYLES ==
    [price |-> [borderColor |-> "#e74c3c", borderWidth |-> 20, pointRadius |-> 0],
     ma5   |-> [borderColor |-> "#3498db", borderWidth |-> 15, pointRadius |-> 0],
     ma20  |-> [borderColor |-> "#27ae60", borderWidth |-> 15, pointRadius |-> 0],
     ma40  |-> [borderColor |-> "#9b59b6", borderWidth |-> 15, pointRadius |-> 0]]

datasetLabels ==
    [price |-> "Close Price", ma5 |-> "5-Day MA", ma20 |-> "20-Day MA",
     ma40 |-> "40-Day MA"]

datasetTypeMap(label) == CHOOSE d \in DatasetTypes : datasetLabels[d] = label

\* number of loadStockData calls and of style changes by Chart.js in a run
MaxLoads == 2
MaxRestyles == 1

\* the date inputs, and the price data the server returns for them: mas are
\* the moving averages the response carries (data.ma_5, ma_20, ma_40)
DateRanges == {"6M", "1M"}
StockData(range) ==
    [range |-> range, mas |-> IF range = "1M" THEN {} ELSE {"ma5"}]

Responses == {"success", "failure", "error"}

\* Object.assign(dataset, CHART_STYLES[datasetType])
ObjectAssign(ds, d) ==
    [ds EXCEPT !.borderColor = CHART_STYLES[d].borderColor,
               !.borderWidth = CHART_STYLES[d].borderWidth,
               !.pointRadius = CHART_STYLES[d].pointRadius]

\* a check that corrects every dataset on every call
CorrectsAlways(ds, d) == TRUE

NeedsCorrection(ds, d) ==
    \/ ds.pointRadius # CHART_STYLES[d].pointRadius
    \/ ds.borderWidth # CHART_STYLES[d].borderWidth
    \/ ds.borderColor # CHART_STYLES[d].borderColor

\* the datasets ensureChartStyleConsistency corrects
StylesApplied(chart) ==
    { d \in DOMAIN chart.datasets :
        NeedsCorrection(chart.datasets[d], datasetTypeMap(chart.datasets[d].label)) }

Corrected(chart) ==
    [chart EXCEPT !.datasets =
        [d \in DOMAIN chart.datasets |->
            LET ds == chart.datasets[d]
                ty == datasetTypeMap(ds.label)
            IN  IF NeedsCorrection(ds, ty)
                THEN [ObjectAssign(ds, ty) EXCEPT !.data = ds.data,
                                                  !.hidden = ds.hidden,
                                                  !.label = ds.label]
                ELSE ds]]

Op(name, updated) == [name |-> name, updated |-> updated]

\* ensureChartStyleConsistency(), called from the operation `name`
EnsureChartStyleConsistency(chart, name) ==
    IF chart = Null
    THEN priceChart' = chart /\ chartOp' = Op(name, FALSE)
    ELSE /\ priceChart' = Corrected(chart)
         /\ chartOp' = Op(name, StylesApplied(chart) # {})

\* new Chart(ctx, ...) over allDatasets
DisplayPriceChart(data) ==
    [data |-> data.range,
     datasets |-> [d \in {"price"} \cup data.mas |->
                     [label |-> datasetLabels[d], data |-> <<data.range, d>>,
                      hidden |-> ~checked[d],
                      borderColor |-> CHART_STYLES[d].borderColor,
                      borderWidth |-> CHART_STYLES[d].borderWidth,
                      pointRadius |-> CHART_STYLES[d].pointRadius]],
     meta |-> [d \in {"price"} \cup data.mas |-> "null"]]

\* Chart.js: a dataset is drawn unless its meta, or else its own flag, hides it
DatasetHidden(chart, d) ==
    IF chart.meta[d] = "null" THEN chart.datasets[d].hidden ELSE chart.meta[d] = "true"

\* a checkbox changes and its listener runs reactiveToggleDataset
CheckboxChange(d) ==
    /\ checked' = [checked EXCEPT ![d] = ~@]
    /\ chartUpdateTimeout' =
          IF ~isChartReady \/ priceChart = Null THEN chartUpdateTimeout
          ELSE [datasetType |-> d]
    /\ chartOp' = Op("other", FALSE)
    /\ UNCHANGED <<priceChart, volumeChart, currentStockData, isChartReady,
                   dateRange, loads, calls, restyles>>
    /\ UNCHANGED notChartVars

\* the 100 ms timer fires: performReactiveToggle
PerformReactiveToggle ==
    /\ chartUpdateTimeout # Null
    /\ LET d == chartUpdateTimeout.datasetType IN
       IF priceChart = Null \/ d \notin DOMAIN priceChart.datasets
       THEN UNCHANGED priceChart /\ chartOp' = Op("reactiveToggle", FALSE)
       ELSE /\ priceChart' =
                 [priceChart EXCEPT !.datasets[d] = ObjectAssign(@, d),
                                    !.meta[d] = IF checked[d] THEN "false" ELSE "true"]
            /\ chartOp' = Op("reactiveToggle", TRUE)
    /\ chartUpdateTimeout' = Null
    /\ UNCHANGED <<volumeChart, currentStockData, isChartReady, checked,
                   dateRange, loads, calls, restyles>>
    /\ UNCHANGED notChartVars

toggleDataset(d) ==
    /\ priceChart # Null
    /\ IF d \notin DOMAIN priceChart.datasets
       THEN UNCHANGED priceChart /\ chartOp' = Op("toggle", FALSE)
       ELSE /\ priceChart' =
                 [priceChart EXCEPT !.datasets[d] = ObjectAssign(@, d),
                                    !.meta[d] = IF @ = "true" THEN "false" ELSE "true"]
            /\ chartOp' = Op("toggle", TRUE)
    /\ UNCHANGED <<volumeChart, currentStockData, isChartReady,
                   chartUpdateTimeout, checked, dateRange, loads, calls, restyles>>
    /\ UNCHANGED notChartVars

setDateRange(range) ==
    /\ dateRange' = range
    /\ EnsureChartStyleConsistency(priceChart, "dateRange")
    /\ UNCHANGED <<volumeChart, currentStockData, isChartReady,
                   chartUpdateTimeout, checked, loads, calls, restyles>>
    /\ UNCHANGED notChartVars

\* window.ensureChartStyleConsistency(), called on its own
EnsureCall ==
    /\ EnsureChartStyleConsistency(priceChart, "ensure")
    /\ UNCHANGED <<volumeChart, currentStockData, isChartReady,
                   chartUpdateTimeout, checked, dateRange, loads, calls, restyles>>
    /\ UNCHANGED notChartVars

\* loadStockData up to its first await
loadStockData ==
    /\ calls.started < MaxLoads
    /\ isChartReady' = FALSE
    /\ loads' = loads \cup {[id |-> calls.started + 1, range |-> dateRange, phase |-> "info"]}
    /\ calls' = [calls EXCEPT !.started = @ + 1, !.latest = dateRange]
    /\ chartOp' = Op("other", FALSE)
    /\ UNCHANGED <<priceChart, volumeChart, currentStockData,
                   chartUpdateTimeout, checked, dateRange, restyles>>
    /\ UNCHANGED notChartVars

\* a response that is not a success ends the call: an unsuccessful body
\* returns after showError, a rejected fetch resets isChartReady in catch
LoadFails(l, res) ==
    /\ loads' = loads \ {l}
    /\ calls' = [calls EXCEPT !.failed = TRUE]
    /\ isChartReady' = IF res = "error" THEN FALSE ELSE isChartReady
    /\ chartOp' = Op("other", FALSE)
    /\ UNCHANGED <<priceChart, volumeChart, currentStockData>>

\* the stock info response arrives
InfoResponse(l, res) ==
    /\ l.phase = "info"
    /\ IF res = "success"
       THEN /\ loads' = (loads \ {l}) \cup {[l EXCEPT !.phase = "prices"]}
            /\ chartOp' = Op("other", FALSE)
            /\ UNCHANGED <<priceChart, volumeChart, currentStockData, isChartReady, calls>>
       ELSE LoadFails(l, res)
    /\ UNCHANGED <<chartUpdateTimeout, checked, dateRange, restyles>>
    /\ UNCHANGED notChartVars

\* the price response arrives and the charts are rebuilt
PriceResponse(l, res) ==
    /\ l.phase = "prices"
    /\ IF res = "success"
       THEN LET data == StockData(l.range) IN
            /\ currentStockData' = data
            /\ volumeChart' = [data |-> data.range]
            /\ isChartReady' = TRUE
            /\ EnsureChartStyleConsistency(DisplayPriceChart(data), "load")
            /\ loads' = loads \ {l}
            /\ UNCHANGED calls
       ELSE LoadFails(l, res)
    /\ UNCHANGED <<chartUpdateTimeout, checked, dateRange, restyles>>
    /\ UNCHANGED notChartVars

\* Chart.js changes a style property of a dataset during an update of its
\* own (the 'active' mode of a legend click or a hover)
RestyleValues ==
    [pointRadius |-> 3, borderWidth |-> 30, borderColor |-> "#666666"]

ChartJsRestyle(d, prop) ==
    /\ priceChart # Null
    /\ d \in DOMAIN priceChart.datasets
    /\ restyles < MaxRestyles
    /\ restyles' = restyles + 1
    /\ priceChart' = [priceChart EXCEPT !.datasets[d][prop] = RestyleValues[prop]]
    /\ chartOp' = Op("chartjs", TRUE)
    /\ UNCHANGED <<volumeChart, currentStockData, isChartReady,
                   chartUpdateTimeout, checked, dateRange, loads, calls>>
    /\ UNCHANGED notChartVars

ChartInit ==
    /\ PipelineOff /\ PairOff /\ SearchOff /\ ScreenOff /\ ResizeOff
    /\ priceChart = Null /\ volumeChart = Null /\ currentStockData = Null
    /\ isChartReady = FALSE
    /\ chartUpdateTimeout = Null
    /\ checked \in [DatasetTypes -> BOOLEAN]
    /\ dateRange = "6M"
    /\ loads = {}
    /\ calls = [started |-> 0, latest |-> "6M", failed |-> FALSE]
    /\ chartOp = Op("other", FALSE)
    /\ restyles = 0

\* the page under style changes: one load at a time, toggles of the price
\* and 5-day checkboxes, direct toggles, the date preset clicked again,
\* ensureChartStyleConsistency on its own, Chart.js restyling
StyleInit == ChartInit /\ checked = [d \in DatasetTypes |-> TRUE]

StyleNext ==
    \/ \E d \in {"price", "ma5"} : CheckboxChange(d)
    \/ PerformReactiveToggle
    \/ \E d \in {"price", "ma5"} : toggleDataset(d)
    \/ \E range \in {dateRange} : setDateRange(range)
    \/ EnsureCall
    \/ loads = {} /\ loadStockData
    \/ \E l \in loads : \E res \in Responses : InfoResponse(l, res)
    \/ \E l \in loads : \E res \in Responses : PriceResponse(l, res)
    \/ \E d \in DatasetTypes : \E prop \in DOMAIN RestyleValues : ChartJsRestyle(d, prop)

StyleSpec == StyleInit /\ [][StyleNext]_vars

\* the smooth line format of a dataset: no points, the width and the colour
\* of its CHART_STYLES entry
SmoothLine(ds, d) ==
    /\ ds.pointRadius = 0
    /\ ds.borderWidth = CHART_STYLES[d].borderWidth
    /\ ds.borderColor = CHART_STYLES[d].borderColor

Interactions == {"toggle", "reactiveToggle", "dateRange", "load"}

\* C24: after every chart interaction (a toggle through toggleDataset or
\* performReactiveToggle, a date-range change, a chart load) every dataset
\* of the price chart has the smooth line format, even if Chart.js changed
\* its properties earlier.
SmoothAfterInteraction ==
    (chartOp.name \in Interactions /\ priceChart # Null) =>
        \A d \in DOMAIN priceChart.datasets : SmoothLine(priceChart.datasets[d], d)

EnsureOps == {"ensure", "dateRange"}

\* C25: a call of ensureChartStyleConsistency leaves the data, the hidden
\* flag and the label of every dataset (and the visibility overrides) as
\* they were, calls priceChart.update exactly when a dataset's pointRadius,
\* borderWidth or borderColor differed from CHART_STYLES, and a second call
\* right after the first changes nothing and calls no update.
EnsureOnlyCorrectsStyles ==
    [][chartOp'.name \in EnsureOps =>
         IF priceChart = Null
         THEN priceChart' = Null /\ ~chartOp'.updated
         ELSE /\ DOMAIN priceChart'.datasets = DOMAIN priceChart.datasets
              /\ \A d \in DOMAIN priceChart.datasets :
                    /\ priceChart'.datasets[d].data = priceChart.datasets[d].data
                    /\ priceChart'.datasets[d].hidden = priceChart.datasets[d].hidden
                    /\ priceChart'.datasets[d].label = priceChart.datasets[d].label
              /\ priceChart'.meta = priceChart.meta
              /\ priceChart'.data = priceChart.data
              /\ (chartOp'.updated <=>
                    \E d \in DOMAIN priceChart.datasets :
                        ~SmoothLine(priceChart.datasets[d], d))
              /\ (chartOp.name \in EnsureOps =>
                    priceChart' = priceChart /\ ~chartOp'.updated)]_vars

\* ensureChartStyleConsistency has corrected a dataset Chart.js had
\* restyled, on a chart with a hidden dataset, and called update
RestyledDatasetCorrected ==
    /\ chartOp = Op("ensure", TRUE)
    /\ restyles > 0
    /\ priceChart # Null
    /\ \E d \in DOMAIN priceChart.datasets : DatasetHidden(priceChart, d)
    /\ \A d \in DOMAIN priceChart.datasets : SmoothLine(priceChart.datasets[d], d)

\* the page under checkbox changes only: loads, changes of the four
\* checkboxes and the debounce timer
ReactiveNext ==
    \/ \E d \in DatasetTypes : CheckboxChange(d)
    \/ PerformReactiveToggle
    \/ loads = {} /\ loadStockData
    \/ \E l \in loads : \E res \in Responses : InfoResponse(l, res)
    \/ \E l \in loads : \E res \in Responses : PriceResponse(l, res)

ReactiveSpec == ChartInit /\ [][ReactiveNext]_vars

\* C27: with a chart loaded and ready and no debounce timer pending, after
\* any sequence of checkbox change events, each dataset of the price chart
\* is hidden exactly when its checkbox is unchecked.
HiddenMatchesCheckbox ==
    (isChartReady /\ priceChart # Null /\ chartUpdateTimeout = Null) =>
        \A d \in DOMAIN priceChart.datasets :
            DatasetHidden(priceChart, d) <=> ~checked[d]

\* the page under overlapping loads: date presets and loadStockData calls
\* whose responses arrive in any order
LoadInit == ChartInit /\ checked = [d \in DatasetTypes |-> TRUE]

LoadNext ==
    \/ \E range \in DateRanges : setDateRange(range)
    \/ loadStockData
    \/ \E l \in loads : \E res \in Responses : InfoResponse(l, res)
    \/ \E l \in loads : \E res \in Responses : PriceResponse(l, res)

LoadSpec == LoadInit /\ [][LoadNext]_vars

\* C28: when several loadStockData calls overlap and all of them have
\* completed with success, currentStockData and the price and volume charts
\* are those of the call started last, whatever the order of the responses.
LatestLoadShown ==
    (calls.started > 0 /\ loads = {} /\ ~calls.failed) =>
        /\ currentStockData = StockData(calls.latest)
        /\ priceChart # Null /\ priceChart.data = calls.latest
        /\ volumeChart # Null /\ volumeChart.data = calls.latest

\* ---------------------------------------------------------------------
\* The stock search box (setupSearchFunctionality, searchTickers).
\* Time is counted in steps of 100 ms.

\* the debounce delay of the input listener, 300 ms
SearchDelay == 3

\* how many input events a run follows
MaxInputs == 3

\* the texts the user leaves in the box, as sequences of characters
BoxValues == {<<>>, <<" ">>, <<"a">>, <<"a", " ">>, <<"a", "b">>}

\* String.prototype.trim
RECURSIVE TrimStart(_)
TrimStart(s) ==
    IF s # <<>> /\ Head(s) = " " THEN TrimStart(Tail(s)) ELSE s

RECURSIVE TrimEnd(_)
TrimEnd(s) ==
    IF s # <<>> /\ s[Len(s)] = " " THEN TrimEnd(SubSeq(s, 1, Len(s) - 1)) ELSE s

Trim(s) == TrimEnd(TrimStart(s))

\* clearTimeout(handle): the runtime drops the timer with that handle
ClearTimeout(handle) == {t \in timers : t.id # handle}

\* what a response of /search/tickers can be: results, an empty result
\* list, success false with results, and a failed fetch
SearchOutcomes == {"results", "noResults", "failure", "error"}

Html(kind, query) == [kind |-> kind, query |-> query]

\* the dropdown after searchTickers(query) got its response
Rendered(query, res) ==
    CASE res = "results" -> [display |-> "block", html |-> Html("results", query)]
      [] res = "noResults" -> [display |-> "block", html |-> Html("noResults", <<>>)]
      [] res = "failure" -> [display |-> "none", html |-> Html("empty", <<>>)]
      [] OTHER -> [display |-> "block", html |-> Html("error", <<>>)]

\* the input listener that sets a timer without clearing the pending one
SearchInputKeepsTimer(value) ==
    /\ searchInput.count < MaxInputs
    /\ LET query == Trim(value)
           id == searchInput.count + 1
           heard == [searchInput EXCEPT
                        !.value = value, !.query = query, !.since = 0,
                        !.count = id,
                        !.burstLen = IF searchInput.since < SearchDelay
                                     THEN searchInput.burstLen + 1 ELSE 1,
                        !.burstCalls = IF searchInput.since < SearchDelay
                                       THEN searchInput.burstCalls ELSE 0]
       IN IF Len(query) < 1
          THEN /\ timers' = ClearTimeout(searchTimeout)
               /\ searchResults' = [display |-> "none", html |-> Html("empty", <<>>)]
               /\ searchInput' = [heard EXCEPT !.ticker = ""]
               /\ UNCHANGED searchTimeout
          ELSE /\ timers' = timers \cup {[id |-> id, query |-> query, due |-> SearchDelay]}
               /\ searchTimeout' = id
               /\ searchInput' = heard
               /\ UNCHANGED searchResults
    /\ UNCHANGED <<searches, searched, selectedSearchIndex>>
    /\ UNCHANGED notSearchVars

\* the 'input' listener of the search box: the user leaves value in it
SearchInput(value) ==
    /\ searchInput.count < MaxInputs
    /\ LET query == Trim(value)
           id == searchInput.count + 1
           cleared == ClearTimeout(searchTimeout)
           heard == [searchInput EXCEPT
                        !.value = value, !.query = query, !.since = 0,
                        !.count = id,
                        !.burstLen = IF searchInput.since < SearchDelay
                                     THEN searchInput.burstLen + 1 ELSE 1,
                        !.burstCalls = IF searchInput.since < SearchDelay
                                       THEN searchInput.burstCalls ELSE 0]
       IN IF Len(query) < 1
          THEN /\ timers' = cleared
               /\ searchResults' = [display |-> "none", html |-> Html("empty", <<>>)]
               /\ searchInput' = [heard EXCEPT !.ticker = ""]
               /\ UNCHANGED searchTimeout
          ELSE /\ timers' = cleared \cup {[id |-> id, query |-> query, due |-> SearchDelay]}
               /\ searchTimeout' = id
               /\ searchInput' = heard
               /\ UNCHANGED searchResults
    /\ UNCHANGED <<searches, searched, selectedSearchIndex>>
    /\ UNCHANGED notSearchVars

\* 100 ms pass; a timer that is due runs before more time passes
SearchTick ==
    /\ \A t \in timers : t.due > 0
    /\ timers # {} \/ searchInput.since < SearchDelay
    /\ timers' = {[t EXCEPT !.due = t.due - 1] : t \in timers}
    /\ searchInput' = [searchInput EXCEPT
                          !.since = IF searchInput.since < SearchDelay
                                    THEN searchInput.since + 1 ELSE SearchDelay]
    /\ UNCHANGED <<searchTimeout, searches, searched, searchResults, selectedSearchIndex>>
    /\ UNCHANGED notSearchVars

\* the timer callback: searchTickers(query) sends its request
SearchTimerFires(t) ==
    /\ t.due = 0
    /\ timers' = timers \ {t}
    /\ searches' = searches \cup {[id |-> searched.started + 1, query |-> t.query]}
    /\ searched' = [searched EXCEPT !.started = searched.started + 1,
                                    !.latest = t.query]
    /\ searchInput' = [searchInput EXCEPT !.burstCalls = searchInput.burstCalls + 1]
    /\ UNCHANGED <<searchTimeout, searchResults, selectedSearchIndex>>
    /\ UNCHANGED notSearchVars

\* searchTickers after its await: the response of call s is rendered; a
\* rejected fetch reaches the catch block before the index is reset
SearchResponse(s, res) ==
    /\ searches' = searches \ {s}
    /\ searchResults' = Rendered(s.query, res)
    /\ selectedSearchIndex' = IF res = "error" THEN selectedSearchIndex ELSE -1
    /\ searched' = [searched EXCEPT !.failed = searched.failed \/ res # "results"]
    /\ UNCHANGED <<searchInput, timers, searchTimeout>>
    /\ UNCHANGED notSearchVars

\* Escape in the box, or a click outside it: the dropdown is hidden
HideSearchResults ==
    /\ searchResults.display = "block" \/ selectedSearchIndex # -1
    /\ searchResults' = [searchResults EXCEPT !.display = "none"]
    /\ selectedSearchIndex' = -1
    /\ UNCHANGED <<searchInput, timers, searchTimeout, searches, searched>>
    /\ UNCHANGED notSearchVars

SearchInit ==
    /\ PipelineOff /\ PairOff /\ ChartOff /\ ScreenOff /\ ResizeOff
    /\ searchInput \in {[value |-> <<>>, query |-> <<>>, since |-> SearchDelay,
                         count |-> 0, burstLen |-> 0, burstCalls |-> 0,
                         ticker |-> k] : k \in {"", "AAPL"}}
    /\ timers = {}
    /\ searchTimeout = 0
    /\ searches = {}
    /\ searched = [started |-> 0, latest |-> <<>>, failed |-> FALSE]
    /\ searchResults = [display |-> "none", html |-> Html("empty", <<>>)]
    /\ selectedSearchIndex = -1

SearchNext ==
    \/ \E value \in BoxValues : SearchInput(value)
    \/ SearchTick
    \/ \E t \in timers : SearchTimerFires(t)
    \/ \E s \in searches : \E res \in SearchOutcomes : SearchResponse(s, res)
    \/ HideSearchResults

SearchSpec == SearchInit /\ [][SearchNext]_vars

\* C26: in a burst of inputs less than 300 ms apart searchTickers is called
\* at most once; a call is made 300 ms after the last input, with the
\* trimmed text of that input; after an input that leaves the box empty no
\* call is pending.
DebouncedSearch ==
    /\ [](/\ searchInput.burstCalls <= 1
          /\ (searchInput.query = <<>> => timers = {})
          /\ \A t \in timers : t.query = searchInput.query)
    /\ [][searched'.started # searched.started =>
              /\ searchInput.since = SearchDelay
              /\ searched'.latest = searchInput.query
              /\ searchInput.query # <<>>]_vars

\* a burst of two or more inputs has ended in its one call
BurstSearchedOnce ==
    /\ searchInput.burstLen >= 2
    /\ searchInput.burstCalls = 1
    /\ searched.latest = <<"a", "b">>

\* C29: once every searchTickers response has arrived, all with results,
\* and no call is pending, the dropdown holds the results of the latest
\* query; while the box is empty the dropdown is hidden.
DropdownShowsLatestQuery ==
    /\ (/\ searched.started > 0 /\ searches = {} /\ timers = {}
        /\ ~searched.failed /\ searchInput.query # <<>>)
       => searchResults.html = Html("results", searched.latest)
    /\ searchInput.query = <<>> => searchResults.display = "none"

\* ---------------------------------------------------------------------
\* Fullscreen mode (FullscreenManager, ResizableChart, and toggleFullscreen
\* of app.js).  Time is counted in steps of 50 ms.

Containers == {"priceChartContainer", "volumeChartContainer"}

\* the plot shown in a container, and the plot configurations
PlotOf(c) == IF c = "priceChartContainer" THEN "stock-prices" ELSE "volume"

PlotConfig ==
    [p \in {"stock-prices", "volume"} |-> [fullscreenEnabled |-> TRUE, resizable |-> TRUE]]

\* the chart of a container: the global priceChart or volumeChart
ChartOf(c) == IF c = "priceChartContainer" THEN priceChart ELSE volumeChart

\* the delay of the setup timer, 100 ms
SetupDelay == 2

\* the delay of chart.resize() after the setup, 50 ms
ResizeDelay == 1

\* the delay of the resize after the cleanup, 100 ms
CleanupResizeDelay == 2

FullscreenHeight == "calc(100vh - 6rem)"

\* originalCanvasDimensions[containerId] is undefined
NoEntry == [height |-> "undefined", maxHeight |-> "undefined"]

Timer(kind, c, due, chart) == [kind |-> kind, container |-> c, due |-> due, chart |-> chart]

\* new ResizableChart(containerId, chart): createWrapper looks for the
\* formula box under the container, moves it into a new wrapper and appends
\* the wrapper to the container only when the container is in fullscreen
NewResizableChart(c) ==
    [container |-> c, wrapper |-> dom[c].formulaBox # "detached"]

WrappedBox(c) ==
    IF dom[c].formulaBox = "detached" THEN "detached"
    ELSE IF fullscreenElement = c THEN "wrapper" ELSE "detached"

\* ResizableChart.destroy: the formula box goes back to the container
Destroyed(d) ==
    IF activeInstance # Null /\ activeInstance.wrapper
    THEN [d EXCEPT ![activeInstance.container].formulaBox = "container"]
    ELSE d

\* the canvas of the containers in cs gets its stored height back
Restored(d, cs) ==
    [c \in Containers |->
        IF c \in cs /\ originalCanvasDimensions[c] # NoEntry
        THEN [d[c] EXCEPT !.canvasHeight =
                 IF originalCanvasDimensions[c].height = "" THEN "300px"
                 ELSE originalCanvasDimensions[c].height,
                          !.canvasMaxHeight = originalCanvasDimensions[c].maxHeight]
        ELSE d[c]]

\* FullscreenManager.cleanup hides the sidebar of the container
SidebarsHidden(d, cs) ==
    [c \in Containers |->
        IF c \in cs /\ d[c].sidebar # "absent" /\ fullscreenScript = "manager"
        THEN [d[c] EXCEPT !.sidebar = "none"] ELSE d[c]]

\* the document leaves fullscreen and the fullscreenchange event runs the
\* registered handlers, each of which cleans up and removes itself
LeaveFullscreen ==
    /\ fullscreenElement' = ""
    /\ IF fullscreenListeners = {}
       THEN UNCHANGED <<activeInstance, originalCanvasDimensions, fullscreenListeners,
                        screenTimers, dom>>
       ELSE /\ activeInstance' = Null
            /\ dom' = SidebarsHidden(Restored(Destroyed(dom), fullscreenListeners),
                                     fullscreenListeners)
            /\ originalCanvasDimensions' =
                   [c \in Containers |->
                       IF c \in fullscreenListeners THEN NoEntry
                       ELSE originalCanvasDimensions[c]]
            /\ screenTimers' = screenTimers \cup
                   {Timer("resize", c, CleanupResizeDelay, FALSE) : c \in fullscreenListeners}
            /\ fullscreenListeners' = {}

\* enterFullscreen, and the first branch of toggleFullscreen of app.js
EnterFullscreen(c) ==
    /\ PlotConfig[PlotOf(c)].fullscreenEnabled
    /\ fullscreenElement' = c
    /\ originalCanvasDimensions' =
           [originalCanvasDimensions EXCEPT
               ![c] = [height |-> dom[c].canvasHeight, maxHeight |-> dom[c].canvasMaxHeight]]
    /\ dom' = [dom EXCEPT ![c].canvasHeight = FullscreenHeight,
                          ![c].canvasMaxHeight = FullscreenHeight]
    /\ fullscreenListeners' = IF fullscreenScript = "app" THEN fullscreenListeners \cup {c}
                              ELSE fullscreenListeners
    /\ screenTimers' = screenTimers \cup {Timer("setup", c, SetupDelay, ChartOf(c) # Null)}
    /\ UNCHANGED activeInstance

\* the fullscreen button of a container
toggleFullscreen(c) ==
    /\ IF fullscreenElement = "" THEN EnterFullscreen(c) ELSE LeaveFullscreen
    /\ UNCHANGED fullscreenScript
    /\ UNCHANGED notScreenVars

\* the Escape key, or the exit button of the sidebar
exitFullscreen ==
    /\ fullscreenElement # ""
    /\ LeaveFullscreen
    /\ UNCHANGED fullscreenScript
    /\ UNCHANGED notScreenVars

\* the setup timer: setupFullscreenUI of the manager, or the timer callback
\* of toggleFullscreen in app.js
SetupTimerFires(t) ==
    /\ t.kind = "setup" /\ t.due = 0
    /\ LET c == t.container IN
       IF fullscreenScript = "manager"
       THEN /\ dom' = [dom EXCEPT
                         ![c].sidebar = IF fullscreenElement = c THEN "block"
                                        ELSE IF dom[c].sidebar = "absent" THEN "none"
                                        ELSE dom[c].sidebar,
                         ![c].formulaBox = IF PlotConfig[PlotOf(c)].resizable
                                           THEN WrappedBox(c) ELSE dom[c].formulaBox]
            /\ activeInstance' = IF PlotConfig[PlotOf(c)].resizable
                                 THEN NewResizableChart(c) ELSE activeInstance
            /\ fullscreenListeners' = fullscreenListeners \cup {c}
            /\ screenTimers' = (screenTimers \ {t}) \cup
                   (IF t.chart THEN {Timer("resize", c, ResizeDelay, FALSE)} ELSE {})
       ELSE /\ IF ChartOf(c) # Null
               THEN /\ activeInstance' = NewResizableChart(c)
                    /\ dom' = [dom EXCEPT ![c].formulaBox = WrappedBox(c)]
               ELSE UNCHANGED <<activeInstance, dom>>
            /\ screenTimers' = screenTimers \ {t}
            /\ UNCHANGED fullscreenListeners
    /\ UNCHANGED <<fullscreenScript, fullscreenElement, originalCanvasDimensions>>
    /\ UNCHANGED notScreenVars

\* a resize timer: chart.resize() changes nothing that is kept here
ResizeTimerFires(t) ==
    /\ t.kind = "resize" /\ t.due = 0
    /\ screenTimers' = screenTimers \ {t}
    /\ UNCHANGED <<fullscreenScript, fullscreenElement, activeInstance,
                   originalCanvasDimensions, fullscreenListeners, dom>>
    /\ UNCHANGED notScreenVars

\* 50 ms pass; a timer that is due runs before more time passes
ScreenTick ==
    /\ screenTimers # {}
    /\ \A t \in screenTimers : t.due > 0
    /\ screenTimers' = {[t EXCEPT !.due = t.due - 1] : t \in screenTimers}
    /\ UNCHANGED <<fullscreenScript, fullscreenElement, activeInstance,
                   originalCanvasDimensions, fullscreenListeners, dom>>
    /\ UNCHANGED notScreenVars

\* the stock page before any data is loaded, or after one load of six months
PageLoaded ==
    /\ checked = [d \in DatasetTypes |-> TRUE]
    /\ dateRange = "6M"
    /\ chartUpdateTimeout = Null
    /\ loads = {}
    /\ restyles = 0
    /\ \/ /\ priceChart = Null /\ volumeChart = Null /\ currentStockData = Null
          /\ isChartReady = FALSE
          /\ calls = [started |-> 0, latest |-> "6M", failed |-> FALSE]
          /\ chartOp = Op("other", FALSE)
       \/ /\ priceChart = DisplayPriceChart(StockData("6M"))
          /\ volumeChart = [data |-> "6M"]
          /\ currentStockData = StockData("6M")
          /\ isChartReady = TRUE
          /\ calls = [started |-> 1, latest |-> "6M", failed |-> FALSE]
          /\ chartOp = Op("load", FALSE)

\* a container whose canvas has the inline style height and max-height;
\* initial keeps the two values the page was opened with
Container(height, maxHeight) ==
    [canvasHeight |-> height, canvasMaxHeight |-> maxHeight,
     initial |-> [height |-> height, maxHeight |-> maxHeight],
     formulaBox |-> "container", sidebar |-> "absent"]

ScreenStart ==
    /\ PipelineOff /\ PairOff /\ SearchOff /\ ResizeOff
    /\ PageLoaded
    /\ fullscreenScript \in {"manager", "app"}
    /\ fullscreenElement = ""
    /\ activeInstance = Null
    /\ originalCanvasDimensions = [c \in Containers |-> NoEntry]
    /\ fullscreenListeners = {}
    /\ screenTimers = {}

ScreenInit ==
    /\ ScreenStart
    /\ dom = [c \in Containers |-> Container("", "")]

ScreenNext ==
    \/ \E c \in Containers : toggleFullscreen(c)
    \/ exitFullscreen
    \/ \E t \in screenTimers : SetupTimerFires(t)
    \/ \E t \in screenTimers : ResizeTimerFires(t)
    \/ ScreenTick

ScreenSpec == ScreenInit /\ [][ScreenNext]_vars

\* C30: when the document is out of fullscreen and no timer is pending, no
\* ResizableChart instance remains, originalCanvasDimensions has no entry
\* for any container and every formula box is in its container.
CleanAfterFullscreenExit ==
    (fullscreenElement = "" /\ screenTimers = {}) =>
        /\ activeInstance = Null
        /\ \A c \in Containers :
              /\ originalCanvasDimensions[c] = NoEntry
              /\ dom[c].formulaBox = "container"

\* C31: whenever no loadStockData call is in progress and a price chart is
\* displayed, isChartReady is true.
ReadyWhenChartDisplayed ==
    (loads = {} /\ priceChart # Null) => isChartReady

\* ---------------------------------------------------------------------
\* The checkboxes of src/frontend/app.js, whose change listeners call
\* toggleDataset at once.  A fullscreen checkbox is set from the main one on
\* entering fullscreen and its handler copies its state to the main one
\* before it calls toggleDataset, so one change event stands for both.
AppCheckboxChange(d) ==
    /\ checked' = [checked EXCEPT ![d] = ~@]
    /\ IF priceChart = Null \/ d \notin DOMAIN priceChart.datasets
       THEN UNCHANGED priceChart /\ chartOp' = Op("toggle", FALSE)
       ELSE /\ priceChart' =
                 [priceChart EXCEPT !.meta[d] = IF @ = "true" THEN "false" ELSE "true"]
            /\ chartOp' = Op("toggle", TRUE)
    /\ UNCHANGED <<volumeChart, currentStockData, isChartReady,
                   chartUpdateTimeout, dateRange, loads, calls, restyles>>
    /\ UNCHANGED notChartVars

\* the page of app.js under checkbox changes and reloads, one at a time
AppNext ==
    \/ \E d \in DatasetTypes : AppCheckboxChange(d)
    \/ loads = {} /\ loadStockData
    \/ \E l \in loads : \E res \in Responses : InfoResponse(l, res)
    \/ \E l \in loads : \E res \in Responses : PriceResponse(l, res)

AppSpec == ChartInit /\ [][AppNext]_vars

\* C32: with a price chart loaded, after any sequence of checkbox change
\* events and reloads, each dataset is hidden exactly when its checkbox is
\* unchecked.
AppHiddenMatchesCheckbox ==
    priceChart # Null =>
        \A d \in DOMAIN priceChart.datasets :
            DatasetHidden(priceChart, d) <=> ~checked[d]

\* ---------------------------------------------------------------------
\* Keyboard navigation of the search results (keydown listener).

\* how many stocks the server finds for a query
ResultCount(query) == IF query = <<"a">> THEN 2 ELSE 1

\* document.querySelectorAll('.search-result-item').length
ResultItems == 
    IF searchResults.html.kind = "results" THEN ResultCount(searchResults.html.query) ELSE 0

ArrowDown ==
    /\ selectedSearchIndex' = Min2(selectedSearchIndex + 1, ResultItems - 1)
    /\ UNCHANGED <<searchInput, timers, searchTimeout, searches, searched, searchResults>>
    /\ UNCHANGED notSearchVars

ArrowUp ==
    /\ selectedSearchIndex' = Max2(selectedSearchIndex - 1, -1)
    /\ UNCHANGED <<searchInput, timers, searchTimeout, searches, searched, searchResults>>
    /\ UNCHANGED notSearchVars

\* Enter on a selected result: selectStock fills the box with the stock's
\* symbol and name, without an input event, and hides the dropdown
EnterKey ==
    /\ selectedSearchIndex >= 0 /\ selectedSearchIndex < ResultItems
    /\ searchInput' = [searchInput EXCEPT !.value = <<"S", " ", "-", " ", "N">>,
                                          !.ticker = "AAPL"]
    /\ searchResults' = [searchResults EXCEPT !.display = "none"]
    /\ selectedSearchIndex' = -1
    /\ UNCHANGED <<timers, searchTimeout, searches, searched>>
    /\ UNCHANGED notSearchVars

KeyNext ==
    \/ \E value \in BoxValues : SearchInput(value)
    \/ SearchTick
    \/ \E t \in timers : SearchTimerFires(t)
    \/ \E s \in searches : \E res \in SearchOutcomes : SearchResponse(s, res)
    \/ HideSearchResults
    \/ ArrowDown
    \/ ArrowUp
    \/ EnterKey

KeySpec == SearchInit /\ [][KeyNext]_vars

\* C33: selectedSearchIndex is at least -1 and at most the number of
\* search result items minus one.
SelectedIndexInRange ==
    /\ -1 <= selectedSearchIndex
    /\ selectedSearchIndex <= ResultItems - 1

\* ---------------------------------------------------------------------
\* Fullscreen mode of the price chart alone, for a canvas with and without
\* an inline height and max-height.
CanvasStyles == {"", "400px"}

CanvasInit ==
    /\ ScreenStart
    /\ \E height \in CanvasStyles : \E maxHeight \in CanvasStyles :
          dom = [c \in Containers |-> Container(height, maxHeight)]

CanvasNext ==
    \/ exitFullscreen
    \/ toggleFullscreen("priceChartContainer")
    \/ \E t \in screenTimers : SetupTimerFires(t)
    \/ \E t \in screenTimers : ResizeTimerFires(t)
    \/ ScreenTick

CanvasSpec == CanvasInit /\ [][CanvasNext]_vars

\* C34: out of fullscreen, with no timer pending, the canvas of every
\* container has the style.height and style.maxHeight the page was opened
\* with.
CanvasRestoredOnExit ==
    (fullscreenElement = "" /\ screenTimers = {}) =>
        \A c \in Containers :
            /\ dom[c].canvasHeight = dom[c].initial.height
            /\ dom[c].canvasMaxHeight = dom[c].initial.maxHeight

\* ---------------------------------------------------------------------
\* ResizableChart: the wrapper that is resized and dragged in fullscreen.
\* Lengths are in pixels; the container sizes are multiples of 20, so that
\* the 80 % and 95 % of them are whole numbers.

\* the constraints of the constructor
minWidth == 400
minHeight == 300
maxWidthPercent == 95
maxHeightPercent == 95

\* the width of the fullscreen sidebar
sidebarWidth == 250

\* how many instances a run makes, and how many mousemove events an
\* instance handles while it resizes or drags
MaxCharts == 2
MaxMoves == 2

\* container.getBoundingClientRect(): the sizes of the fullscreen container
ContainerRects ==
    {[width |-> 650, height |-> 300], [width |-> 710, height |-> 360],
     [width |-> 1250, height |-> 800]}

\* clientX - startX and clientY - startY of a mousemove
Deltas == {-600, 200, 600}

ResizeHandles == {"nw", "n", "ne", "e", "se", "s", "sw", "w"}

\* handle.includes(letter)
Includes(handle, letter) ==
    CASE letter = "n" -> handle \in {"nw", "n", "ne"}
      [] letter = "s" -> handle \in {"se", "s", "sw"}
      [] letter = "e" -> handle \in {"ne", "e", "se"}
      [] OTHER -> handle \in {"nw", "sw", "w"}

AvailableWidth == containerRect.width - sidebarWidth

\* a maximum width of the whole available width
WholeWidth == AvailableWidth
MaxWidth == (AvailableWidth * maxWidthPercent) \div 100
MaxHeight == (containerRect.height * maxHeightPercent) \div 100

\* method.bind(this): every call makes a function object of its own
Bound(id, fn, n) == [instance |-> id, fn |-> fn, bind |-> n]

Listener(target, type, handler) == [target |-> target, type |-> type, handler |-> handler]

\* the elements listeners are put on: a resize handle of the wrapper of an
\* instance, the formula box, and the document
Handle(id, position) == [element |-> "handle", of |-> id, position |-> position]
FormulaBox == [element |-> "formulaBox", of |-> 0, position |-> ""]
Document == [element |-> "document", of |-> 0, position |-> ""]

\* the listeners that setupEventListeners registers for instance id: two on
\* each resize handle, two on the formula box and four on the document
RegisteredBy(id) ==
    {Listener(Handle(id, h), "mousedown", Bound(id, "startResize", <<h, 1>>)) : h \in ResizeHandles}
    \cup {Listener(Handle(id, h), "touchstart", Bound(id, "startResize", <<h, 2>>)) : h \in ResizeHandles}
    \cup {Listener(FormulaBox, "mousedown", Bound(id, "startDrag", <<"box", 1>>)),
          Listener(FormulaBox, "touchstart", Bound(id, "startDrag", <<"box", 2>>)),
          Listener(Document, "mousemove", Bound(id, "handleMouseMove", <<"document", 1>>)),
          Listener(Document, "mouseup", Bound(id, "handleMouseUp", <<"document", 2>>)),
          Listener(Document, "touchmove", Bound(id, "handleMouseMove", <<"document", 3>>)),
          Listener(Document, "touchend", Bound(id, "handleMouseUp", <<"document", 4>>))}

\* the listeners that destroy asks to remove: the same targets and types of
\* the handles and the formula box, each with a newly bound function
RemovedBy(id) ==
    {Listener(Handle(id, h), "mousedown", Bound(id, "startResize", <<h, 3>>)) : h \in ResizeHandles}
    \cup {Listener(Handle(id, h), "touchstart", Bound(id, "startResize", <<h, 4>>)) : h \in ResizeHandles}
    \cup {Listener(FormulaBox, "mousedown", Bound(id, "startDrag", <<"box", 3>>)),
          Listener(FormulaBox, "touchstart", Bound(id, "startDrag", <<"box", 4>>))}

\* removeEventListener drops the listeners with the same target, type and
\* function object
RemoveListeners(id) == eventListeners \cap RemovedBy(id)

\* the wrapper of destroy is removed from the document with its handles;
\* the formula box goes back to the container and the document stays
InDocument(target) == target.element \in {"formulaBox", "document"}

Geometry(left, top, width, height) ==
    [left |-> left, top |-> top, width |-> width, height |-> height]

\* setInitialPosition: 80 % of the available space, centred
InitialPosition ==
    LET initialWidth == (AvailableWidth * 80) \div 100
        initialHeight == (containerRect.height * 80) \div 100
    IN Geometry((AvailableWidth - initialWidth) \div 2,
                (containerRect.height - initialHeight) \div 2,
                initialWidth, initialHeight)

\* performResize with bounds on the size only in the direction of the handle
PerformResize(deltaX, deltaY) ==
    LET start == resizable
        handle == start.currentHandle
        widthE == IF Includes(handle, "e")
                  THEN Min2(Max2(start.startWidth + deltaX, minWidth), MaxWidth)
                  ELSE start.startWidth
        newWidth == IF Includes(handle, "w")
                    THEN Min2(Max2(start.startWidth - deltaX, minWidth), MaxWidth)
                    ELSE widthE
        leftW == IF Includes(handle, "w")
                 THEN start.startLeft + (start.startWidth - newWidth)
                 ELSE start.startLeft
        heightS == IF Includes(handle, "s")
                   THEN Min2(Max2(start.startHeight + deltaY, minHeight), MaxHeight)
                   ELSE start.startHeight
        newHeight == IF Includes(handle, "n")
                     THEN Min2(Max2(start.startHeight - deltaY, minHeight), MaxHeight)
                     ELSE heightS
        topN == IF Includes(handle, "n")
                THEN start.startTop + (start.startHeight - newHeight)
                ELSE start.startTop
        newLeft == Max2(0, Min2(leftW, AvailableWidth - newWidth))
        newTop == Max2(0, Min2(topN, containerRect.height - newHeight))
    IN Geometry(newLeft, newTop, newWidth, newHeight)

\* a drag that follows the mouse without limits
FreeDrag(deltaX, deltaY) ==
    Geometry(resizable.startLeft + deltaX, resizable.startTop + deltaY,
             wrapper.width, wrapper.height)
PerformDrag(deltaX, deltaY) ==
    LET newLeft == Max2(0, Min2(resizable.startLeft + deltaX, AvailableWidth - wrapper.width))
        newTop == Max2(0, Min2(resizable.startTop + deltaY, containerRect.height - wrapper.height))
    IN Geometry(newLeft, newTop, wrapper.width, wrapper.height)

\* new ResizableChart(containerId, chart, plotConfig) and its init()
NewChart ==
    /\ resizable = Null
    /\ instances < MaxCharts
    /\ instances' = instances + 1
    /\ resizable' = [id |-> instances + 1, isResizing |-> FALSE, isDragging |-> FALSE,
                     currentHandle |-> "", startWidth |-> 0, startHeight |-> 0,
                     startLeft |-> 0, startTop |-> 0, moves |-> 0]
    /\ wrapper' = InitialPosition
    /\ eventListeners' = eventListeners \cup RegisteredBy(instances + 1)
    /\ resizeOp' = "new"
    /\ UNCHANGED containerRect
    /\ UNCHANGED notResizeVars

\* mousedown or touchstart on a resize handle
startResize(handle) ==
    /\ resizable # Null
    /\ resizable' = [resizable EXCEPT !.isResizing = TRUE, !.currentHandle = handle,
                                      !.startWidth = wrapper.width,
                                      !.startHeight = wrapper.height,
                                      !.startLeft = wrapper.left,
                                      !.startTop = wrapper.top]
    /\ resizeOp' = "startResize"
    /\ UNCHANGED <<wrapper, containerRect, eventListeners, instances>>
    /\ UNCHANGED notResizeVars

\* mousedown or touchstart on the formula box, outside its controls
startDrag ==
    /\ resizable # Null
    /\ resizable' = [resizable EXCEPT !.isDragging = TRUE,
                                      !.startLeft = wrapper.left,
                                      !.startTop = wrapper.top]
    /\ resizeOp' = "startDrag"
    /\ UNCHANGED <<wrapper, containerRect, eventListeners, instances>>
    /\ UNCHANGED notResizeVars

\* mousemove or touchmove on the document
handleMouseMove(deltaX, deltaY) ==
    /\ resizable # Null
    /\ resizable.isResizing \/ resizable.isDragging
    /\ resizable.moves < MaxMoves
    /\ IF resizable.isResizing
       THEN wrapper' = PerformResize(deltaX, deltaY) /\ resizeOp' = "performResize"
       ELSE wrapper' = PerformDrag(deltaX, deltaY) /\ resizeOp' = "performDrag"
    /\ resizable' = [resizable EXCEPT !.moves = @ + 1]
    /\ UNCHANGED <<containerRect, eventListeners, instances>>
    /\ UNCHANGED notResizeVars

\* mouseup or touchend on the document
handleMouseUp ==
    /\ resizable # Null
    /\ resizable.isResizing \/ resizable.isDragging
    /\ resizable' = [resizable EXCEPT !.isResizing = FALSE, !.isDragging = FALSE,
                                      !.currentHandle =
                                          IF resizable.isResizing THEN "" ELSE @]
    /\ resizeOp' = "mouseUp"
    /\ UNCHANGED <<wrapper, containerRect, eventListeners, instances>>
    /\ UNCHANGED notResizeVars

\* destroy(), after which the owner drops the instance
destroy ==
    /\ resizable # Null
    /\ eventListeners' = eventListeners \ RemoveListeners(resizable.id)
    /\ resizable' = Null
    /\ wrapper' = Null
    /\ resizeOp' = "destroy"
    /\ UNCHANGED <<containerRect, instances>>
    /\ UNCHANGED notResizeVars

ResizeInit ==
    /\ PipelineOff /\ PairOff /\ ChartOff /\ SearchOff /\ ScreenOff
    /\ resizable = Null
    /\ wrapper = Null
    /\ containerRect \in ContainerRects
    /\ eventListeners = {}
    /\ instances = 0
    /\ resizeOp = ""

\* the instances of a container as they are made and destroyed, with the
\* mouse buttons pressed and released on them
ListenerNext ==
    \/ NewChart
    \/ \E handle \in ResizeHandles : startResize(handle)
    \/ startDrag
    \/ handleMouseUp
    \/ destroy

ListenerSpec == ResizeInit /\ [][ListenerNext]_vars

\* one instance under resize and drag gestures
ResizeNext ==
    \/ instances = 0 /\ NewChart
    \/ \E handle \in ResizeHandles : startResize(handle)
    \/ startDrag
    \/ \E deltaX \in Deltas : \E deltaY \in Deltas : handleMouseMove(deltaX, deltaY)
    \/ handleMouseUp

ResizeSpec == ResizeInit /\ [][ResizeNext]_vars

\* C35: no listener of an instance that was destroyed remains registered
\* on the document or on an element that is still in the document.
NoListenerAfterDestroy ==
    \A l \in eventListeners :
        InDocument(l.target) =>
            (resizable # Null /\ l.handler.instance = resizable.id)

\* C36 as stated: after performResize the wrapper's width is between 400
\* and 95 % of the available width and its height between 300 and 95 % of
\* the container's height.
ResizeWithinLimits ==
    resizeOp = "performResize" =>
        /\ minWidth <= wrapper.width
        /\ 100 * wrapper.width <= maxWidthPercent * AvailableWidth
        /\ minHeight <= wrapper.height
        /\ 100 * wrapper.height <= maxHeightPercent * containerRect.height

\* C36: after performResize the wrapper's width is at most 95 % of the
\* available width and its height at most 95 % of the container's height;
\* the width is at least 400 when the handle includes e or w and 95 % of
\* the available width is at least 400, and the height is at least 300 when
\* the handle includes n or s and 95 % of the container's height is at
\* least 300.
ResizeWithinReachableLimits ==
    resizeOp = "performResize" =>
        LET handle == resizable.currentHandle IN
        /\ 100 * wrapper.width <= maxWidthPercent * AvailableWidth
        /\ 100 * wrapper.height <= maxHeightPercent * containerRect.height
        /\ ((Includes(handle, "e") \/ Includes(handle, "w"))
               /\ maxWidthPercent * AvailableWidth >= 100 * minWidth)
              => minWidth <= wrapper.width
        /\ ((Includes(handle, "n") \/ Includes(handle, "s"))
               /\ maxHeightPercent * containerRect.height >= 100 * minHeight)
              => minHeight <= wrapper.height

\* a resize by the south-east handle has stopped at the maximum width and
\* at the minimum height
ResizedToLimits ==
    /\ resizeOp = "performResize"
    /\ resizable.currentHandle = "se"
    /\ 100 * wrapper.width = maxWidthPercent * AvailableWidth
    /\ wrapper.width > minWidth
    /\ wrapper.height = minHeight

\* C37: after performResize and after performDrag the wrapper is inside the
\* chart area: left and top are not negative, left + width is at most the
\* available width and top + height at most the container's height.
WrapperInsideChartArea ==
    resizeOp \in {"performResize", "performDrag"} =>
        /\ wrapper.left >= 0
        /\ wrapper.top >= 0
        /\ wrapper.left + wrapper.width <= containerRect.width - sidebarWidth
        /\ wrapper.top + wrapper.height <= containerRect.height

\* a drag has pushed the wrapper against the right and bottom edges
DraggedToEdge ==
    /\ resizeOp = "performDrag"
    /\ wrapper.left > 0 /\ wrapper.top > 0
    /\ wrapper.left + wrapper.width = containerRect.width - sidebarWidth
    /\ wrapper.top + wrapper.height = containerRect.height
====
